---- MODULE Spec2Model ----
(***************************************************************************)
(* A model of the register-machine emulator: Processor.py (the loader and  *)
(* the interpreter), Memory.py (instruction memory, data memory, labels,   *)
(* the memory-mapped keyboard cell and video range) and Keyboard.py (the   *)
(* FIFO of key codes).                                                     *)
(*                                                                         *)
(* Python values are modelled as follows.  An operand string is a record   *)
(* [k, n, text]: k is the prefix the code dispatches on ("#", "R", "M",    *)
(* "MR", or "id" for any other token), n the integer after the prefix and  *)
(* text the token itself.  A value that may be None is a record            *)
(* [none, v].  A data cell is absent from data_memory while it is None,    *)
(* and is [t |-> "int", v |-> n] or [t |-> "kbd", v |-> 0] (the Keyboard   *)
(* object stored by set_keyboard_pointer) once written.  An exception is   *)
(* the name of its class in the field err ("" when none was raised).       *)
(***************************************************************************)
EXTENDS Integers, Sequences, FiniteSets, TLC

VARIABLES
    \* Memory
    memory_sizes,             \* [instruction_memory_size, data_memory_size]
    keyboard_buffer_address,
    video_memory_start,
    video_memory_end,
    instruction_memory,
    data_memory,
    labels,
    \* Processor
    data_registers,
    flags,
    program_counter,
    stack_pointer,
    is_file_parsed,
    file_name,
    is_reading_input,
    input,
    input_destination,
    \* Keyboard
    key_queue,
    \* reading_input taken step by step (SpecDrain only)
    drain_pc,
    \* history: what the last tick did, what was pushed and what was consumed
    last,
    pushed,
    consumed,
    ticks

vars == <<memory_sizes, keyboard_buffer_address, video_memory_start, video_memory_end,
          instruction_memory, data_memory, labels, data_registers, flags,
          program_counter, stack_pointer, is_file_parsed, file_name,
          is_reading_input, input, input_destination, key_queue, drain_pc,
          last, pushed, consumed, ticks>>

-----------------------------------------------------------------------------
(* Bounds of the model *)

\* ticks of the host driver in one behaviour
MaxTicks == 7
\* key presses in one behaviour
MaxPushes == 3

-----------------------------------------------------------------------------
(* Values *)

\* Processor.__init__: program_counter = None
None == -1

NoneVal == [none |-> TRUE, v |-> 0]
IntVal(n) == [none |-> FALSE, v |-> n]

NoErr == ""

Reg(i) == [k |-> "R", n |-> i, text |-> "R" \o ToString(i), bad |-> FALSE]
Imm(n) == [k |-> "#", n |-> n, text |-> "#" \o ToString(n), bad |-> FALSE]
Mem(a) == [k |-> "M", n |-> a, text |-> "M" \o ToString(a), bad |-> FALSE]
MemReg(i) == [k |-> "MR", n |-> i, text |-> "MR" \o ToString(i), bad |-> FALSE]
Ident(name) == [k |-> "id", n |-> 0, text |-> name, bad |-> FALSE]
\* a token with prefix k whose remainder int() rejects, such as R0#0
BadNumber(k, text) == [k |-> k, n |-> 0, text |-> text, bad |-> TRUE]

\* input_destination = None
NoOperand == [k |-> "", n |-> 0, text |-> "", bad |-> FALSE]

\* stack entries: CALL pushes an int, PUSH pushes the operand string
StackInt(n) == [isint |-> TRUE, n |-> n, text |-> ""]
StackStr(t) == [isint |-> FALSE, n |-> 0, text |-> t]

RECURSIVE Pow2(_)
Pow2(k) == IF k <= 0 THEN 1 ELSE 2 * Pow2(k - 1)

\* Python's // (floor division), b # 0
FloorDiv(a, b) ==
    IF b > 0 THEN a \div b ELSE (-a) \div (-b)

\* Python's & | ^ on unbounded two's-complement integers
RECURSIVE BitAnd(_, _)
BitAnd(x, y) ==
    IF x = 0 \/ y = 0 THEN 0
    ELSE IF x = -1 THEN y
    ELSE IF y = -1 THEN x
    ELSE (IF x % 2 = 1 /\ y % 2 = 1 THEN 1 ELSE 0) + 2 * BitAnd(x \div 2, y \div 2)

RECURSIVE BitOr(_, _)
BitOr(x, y) ==
    IF x = 0 THEN y
    ELSE IF y = 0 THEN x
    ELSE IF x = -1 \/ y = -1 THEN -1
    ELSE (IF x % 2 = 1 \/ y % 2 = 1 THEN 1 ELSE 0) + 2 * BitOr(x \div 2, y \div 2)

RECURSIVE BitXor(_, _)
BitXor(x, y) ==
    IF x = 0 THEN y
    ELSE IF y = 0 THEN x
    ELSE IF x = -1 /\ y = -1 THEN 0
    ELSE (IF (x % 2) # (y % 2) THEN 1 ELSE 0) + 2 * BitXor(x \div 2, y \div 2)

-----------------------------------------------------------------------------
(* Memory.py *)

MAX_MEMORY_SIZE == 65536
MIN_MEMORY_SIZE == 1024

\* validate_memory_size: the error raised, if any
validate_memory_size(size) ==
    IF size % MIN_MEMORY_SIZE # 0 \/ size > MAX_MEMORY_SIZE THEN "ValueError" ELSE NoErr

\* Memory.__init__: the error raised for the five parameters, if any
MemoryInitError(isize, dsize, kb, vs, ve) ==
    IF validate_memory_size(isize) # NoErr THEN "ValueError"
    ELSE IF validate_memory_size(dsize) # NoErr THEN "ValueError"
    ELSE IF kb >= dsize THEN "InvalidMemoryAddrError"
    ELSE IF vs >= dsize THEN "InvalidMemoryAddrError"
    ELSE IF ve >= dsize \/ ve < vs THEN "InvalidMemoryAddrError"
    ELSE NoErr

KeyboardCell == [t |-> "kbd", v |-> 0]
IntCell(n) == [t |-> "int", v |-> n]

\* the cell a Python list of data_memory_size cells gives for the index
\* address: a negative index counts from the end of the list
ListIndex(address) ==
    IF address < 0 THEN address + memory_sizes.data_memory_size ELSE address

\* set_keyboard_pointer(ptr): data_memory[keyboard_buffer_address] = ptr
set_keyboard_pointer(data, kb) ==
    (ListIndex(kb) :> KeyboardCell) @@ data

\* get_keyboard_pointer() is not None
get_keyboard_pointer(data, kb) ==
    ListIndex(kb) \in DOMAIN data

\* get_keyboard_pointer() is the Keyboard object
KeyboardInstalled(data, kb) ==
    get_keyboard_pointer(data, kb) /\ data[ListIndex(kb)] = KeyboardCell

\* check_instruction_memory_address
check_instruction_memory_address(im, address) ==
    ~ (address >= memory_sizes.instruction_memory_size \/ address < 0
       \/ address >= Len(im))

\* check_memory_address: the error raised, if any
check_memory_address(address) ==
    IF address >= memory_sizes.data_memory_size \/ address < 0
    THEN "InvalidMemoryAddrError"
    ELSE IF address = keyboard_buffer_address THEN "InvalidMemoryAddrError"
    ELSE NoErr

InVideo(address) ==
    address >= video_memory_start /\ address <= video_memory_end

\* set_data: [err, data]
set_data(data, address, value) ==
    IF check_memory_address(address) # NoErr
    THEN [err |-> check_memory_address(address), data |-> data]
    ELSE [err |-> NoErr,
          data |-> (address :> IntCell(IF InVideo(address) THEN value % 256 ELSE value))
                   @@ data]

\* get_data: [err, none, v]
get_data(data, address) ==
    IF check_memory_address(address) # NoErr
    THEN [err |-> check_memory_address(address), none |-> TRUE, v |-> 0]
    ELSE IF address \in DOMAIN data
         THEN [err |-> NoErr, none |-> FALSE, v |-> data[address].v]
         ELSE [err |-> NoErr, none |-> TRUE, v |-> 0]

\* read_video_memory: data_memory[video_memory_start : video_memory_end + 1];
\* element i is the cell, or "none"
NoneCell == [t |-> "none", v |-> 0]
read_video_memory(data, vs, ve) ==
    [i \in 1..(ve - vs + 1) |->
        IF (vs + i - 1) \in DOMAIN data THEN data[vs + i - 1] ELSE NoneCell]

\* goto_label: [err, v]
goto_label(lbls, label) ==
    IF label \notin DOMAIN lbls THEN [err |-> "ValueError", v |-> 0]
    ELSE [err |-> NoErr, v |-> lbls[label]]

\* a variant of add_instruction that binds the label to the index after the
\* one just appended
add_instruction_binds_next(m, instruction, label) ==
    IF Len(m.im) >= memory_sizes.instruction_memory_size
    THEN [m EXCEPT !.err = "MemoryOverflowError"]
    ELSE [err |-> NoErr,
          im |-> Append(m.im, instruction),
          lb |-> IF label # "" THEN (label :> Len(m.im) + 1) @@ m.lb ELSE m.lb]

\* add_instruction on the pair (instruction_memory, labels): [err, im, lb]
add_instruction(m, instruction, label) ==
    IF Len(m.im) >= memory_sizes.instruction_memory_size
    THEN [m EXCEPT !.err = "MemoryOverflowError"]
    ELSE [err |-> NoErr,
          im |-> Append(m.im, instruction),
          lb |-> IF label # "" THEN (label :> Len(m.im)) @@ m.lb ELSE m.lb]

-----------------------------------------------------------------------------
(* Keyboard.py *)

\* input_character: key_queue.append(character)
input_character(queue, character) ==
    Append(queue, character)

\* has_characters: len(key_queue) > 0
has_characters(queue) ==
    Len(queue) > 0

\* a variant of get_next_character that takes from the right end (deque.pop())
get_next_character_from_right(queue) ==
    IF queue # <<>>
    THEN [none |-> FALSE, char |-> queue[Len(queue)],
          queue |-> SubSeq(queue, 1, Len(queue) - 1)]
    ELSE [none |-> TRUE, char |-> 0, queue |-> queue]

\* get_next_character: [none, char, queue]; None when the queue is empty
get_next_character(queue) ==
    IF queue # <<>> THEN [none |-> FALSE, char |-> Head(queue), queue |-> Tail(queue)]
    ELSE [none |-> TRUE, char |-> 0, queue |-> queue]

-----------------------------------------------------------------------------
(* Processor.py: operands and results *)

NumRegisters == 8

\* the keys of instruction_types
InstructionTypes ==
    {"MOV", "ADD", "SUB", "MUL", "DIV", "CMP", "JMP", "JE", "JNE", "JG", "JL",
     "JGE", "JLE", "PUSH", "POP", "CALL", "RET", "NOT", "AND", "OR", "XOR", "SHL", "SHR"}

\* an exception leaves the method
Raise(s, e) == [s EXCEPT !.err = e]

\* check_register_index: the error raised, if any
check_register_index(index) ==
    IF index < 0 \/ index >= NumRegisters THEN "ValueError" ELSE NoErr

\* assert_16_bit: the value it returns
assert_16_bit(value) ==
    IF value > 32767 THEN 32767
    ELSE IF value < -32768 THEN -32768
    ELSE value

\* parse_memory_operand: [err, v]
parse_memory_operand(regs, operand) ==
    IF operand.k \in {"M", "MR"} /\ operand.bad THEN [err |-> "ValueError", v |-> 0]
    ELSE IF operand.k = "MR"
    THEN IF check_register_index(operand.n) # NoErr
         THEN [err |-> "ValueError", v |-> 0]
         ELSE [err |-> NoErr, v |-> regs[operand.n]]
    ELSE IF operand.k = "M" THEN [err |-> NoErr, v |-> operand.n]
    ELSE [err |-> "ValueError", v |-> 0]

\* get_operand_value: [err, none, v]
get_operand_value(s, operand) ==
    IF operand.k \in {"R", "#"} /\ operand.bad
    THEN [err |-> "ValueError", none |-> TRUE, v |-> 0]
    ELSE IF operand.k = "R"
    THEN IF check_register_index(operand.n) # NoErr
         THEN [err |-> "ValueError", none |-> TRUE, v |-> 0]
         ELSE [err |-> NoErr, none |-> FALSE, v |-> s.regs[operand.n]]
    ELSE IF operand.k = "#"
    THEN [err |-> NoErr, none |-> FALSE, v |-> assert_16_bit(operand.n)]
    ELSE IF operand.k \in {"M", "MR"}
    THEN LET a == parse_memory_operand(s.regs, operand)
         IN  IF a.err # NoErr THEN [err |-> a.err, none |-> TRUE, v |-> 0]
             ELSE get_data(s.data, a.v)
    ELSE [err |-> NoErr, none |-> FALSE, v |-> 0]

\* what store_result writes for a result: assert_16_bit(result) is called and
\* its return value is dropped
StoredValue(result) ==
    result

\* store_result: the state after it
store_result(s, destination, result) ==
    IF destination.k = "R"
    THEN IF destination.bad \/ check_register_index(destination.n) # NoErr
         THEN [s EXCEPT !.err = "ValueError"]
         ELSE [s EXCEPT !.regs[destination.n] = StoredValue(result)]
    ELSE IF destination.k \in {"M", "MR"}
    THEN LET a == parse_memory_operand(s.regs, destination)
         IN  IF a.err # NoErr THEN [s EXCEPT !.err = a.err]
             ELSE LET w == set_data(s.data, a.v, StoredValue(result))
                  IN  [s EXCEPT !.err = w.err, !.data = w.data]
    ELSE s

\* str.isdigit() of one character: the decimal digits and the superscript
\* digits of Latin-1
IsDigitChar(c) == c \in (48..57) \cup {178, 179, 185}

RECURSIVE DecimalValue(_)
DecimalValue(str) ==
    IF str = <<>> THEN 0
    ELSE 10 * DecimalValue(SubSeq(str, 1, Len(str) - 1)) + (str[Len(str)] - 48)

\* convert_keyboard_input: [err, v]
convert_keyboard_input(keyboard_input) ==
    IF keyboard_input # <<>> /\ \A i \in 1..Len(keyboard_input) : IsDigitChar(keyboard_input[i])
    THEN IF \A i \in 1..Len(keyboard_input) : keyboard_input[i] \in 48..57
         THEN [err |-> NoErr, v |-> DecimalValue(keyboard_input)]
         ELSE [err |-> "ValueError", v |-> 0]
    ELSE IF Len(keyboard_input) = 1 THEN [err |-> NoErr, v |-> keyboard_input[1]]
    ELSE [err |-> NoErr, v |-> -1]

\* a variant of ReadChar that appends the character before testing for Enter
ReadChar_append_first(s, char) ==
    LET sa == [s EXCEPT !.input = Append(s.input, char)]
    IN  IF char = 13
        THEN LET c  == convert_keyboard_input(sa.input)
                 s1 == [sa EXCEPT !.reading = FALSE]
             IN  IF c.err # NoErr THEN [s |-> [s1 EXCEPT !.err = c.err], stop |-> TRUE]
                 ELSE LET s2 == store_result(s1, s1.dest, c.v)
                      IN  IF s2.err # NoErr THEN [s |-> s2, stop |-> TRUE]
                          ELSE [s |-> [s2 EXCEPT !.input = <<>>], stop |-> TRUE]
        ELSE [s |-> sa, stop |-> FALSE]

\* a variant of ReadChar without the break after the Enter key
ReadChar_no_break(s, char) ==
    IF char = 13
    THEN LET c  == convert_keyboard_input(s.input)
             s1 == [s EXCEPT !.reading = FALSE]
         IN  IF c.err # NoErr THEN [s |-> [s1 EXCEPT !.err = c.err], stop |-> TRUE]
             ELSE LET s2 == store_result(s1, s1.dest, c.v)
                  IN  IF s2.err # NoErr THEN [s |-> s2, stop |-> TRUE]
                      ELSE [s |-> [s2 EXCEPT !.input = <<>>], stop |-> FALSE]
    ELSE [s |-> [s EXCEPT !.input = Append(s.input, char)], stop |-> FALSE]

\* a variant of ReadChar that leaves is_reading_input set at the Enter key
ReadChar_keeps_reading(s, char) ==
    IF char = 13
    THEN LET c  == convert_keyboard_input(s.input)
         IN  IF c.err # NoErr THEN [s |-> [s EXCEPT !.err = c.err], stop |-> TRUE]
             ELSE LET s2 == store_result(s, s.dest, c.v)
                  IN  IF s2.err # NoErr THEN [s |-> s2, stop |-> TRUE]
                      ELSE [s |-> [s2 EXCEPT !.input = <<>>], stop |-> TRUE]
    ELSE [s |-> [s EXCEPT !.input = Append(s.input, char)], stop |-> FALSE]

\* the body of reading_input's loop for one character already taken from the queue:
\* [s, stop]
ReadChar(s, char) ==
    IF char = 13
    THEN LET c  == convert_keyboard_input(s.input)
             s1 == [s EXCEPT !.reading = FALSE]
         IN  IF c.err # NoErr THEN [s |-> [s1 EXCEPT !.err = c.err], stop |-> TRUE]
             ELSE LET s2 == store_result(s1, s1.dest, c.v)
                  IN  IF s2.err # NoErr THEN [s |-> s2, stop |-> TRUE]
                      ELSE [s |-> [s2 EXCEPT !.input = <<>>], stop |-> TRUE]
    ELSE [s |-> [s EXCEPT !.input = Append(s.input, char)], stop |-> FALSE]

\* one pass of reading_input's loop body, after has_characters() returned True:
\* [s, stop]; chr(None) raises TypeError
LoopBody(s) ==
    LET g == get_next_character(s.kq)
    IN  IF g.none THEN [s |-> Raise(s, "TypeError"), stop |-> TRUE]
        ELSE ReadChar([s EXCEPT !.kq = g.queue,
                                !.consumed = Append(s.consumed, g.char)], g.char)

\* reading_input's while loop, run to its end
RECURSIVE DrainLoop(_)
DrainLoop(s) ==
    IF ~ has_characters(s.kq) THEN s
    ELSE LET r == LoopBody(s)
         IN  IF r.stop THEN r.s ELSE DrainLoop(r.s)

\* reading_input; a cell the program has overwritten with an int has no
\* has_characters()
reading_input(s) ==
    IF ~ get_keyboard_pointer(s.data, keyboard_buffer_address) THEN s
    ELSE IF ~ KeyboardInstalled(s.data, keyboard_buffer_address)
    THEN Raise(s, "AttributeError")
    ELSE DrainLoop(s)

-----------------------------------------------------------------------------
(* Processor.py: the instructions.  Each takes the state s (the record    *)
(* State below, of the processor, the memory and the keyboard queue) and    *)
(* the operand list, and gives the state after the method returned or      *)
(* raised (err).                                                            *)

\* get_memory_data: [err, none, v, s]; none with s.reading set is the keyboard trap
get_memory_data(s, operand, destination) ==
    LET a == parse_memory_operand(s.regs, operand)
    IN  IF a.err # NoErr THEN [err |-> a.err, none |-> TRUE, v |-> 0, s |-> s]
        ELSE IF a.v = keyboard_buffer_address
        THEN [err |-> NoErr, none |-> TRUE, v |-> 0,
              s |-> [s EXCEPT !.reading = TRUE, !.dest = destination]]
        ELSE LET d == get_data(s.data, a.v)
             IN  [err |-> d.err, none |-> d.none, v |-> d.v, s |-> s]

mov(s, operands) ==
    IF Len(operands) # 2 THEN s
    ELSE LET destination == operands[1]
             source      == operands[2]
         IN  IF source.k \in {"#", "R"} /\ source.bad THEN Raise(s, "ValueError")
             ELSE IF source.k = "#" THEN store_result(s, destination, source.n)
             ELSE IF source.k = "R"
             THEN IF check_register_index(source.n) # NoErr THEN Raise(s, "ValueError")
                  ELSE store_result(s, destination, s.regs[source.n])
             ELSE IF source.k \in {"M", "MR"}
             THEN LET g == get_memory_data(s, source, destination)
                  IN  IF g.err # NoErr THEN Raise(s, g.err)
                      ELSE IF g.none THEN g.s
                      ELSE store_result(s, destination, g.v)
             ELSE s

\* the two operand values of a binary instruction: [err, a, b] with a, b as [none, v]
TwoOperands(s, operands) ==
    LET o1 == get_operand_value(s, operands[1])
    IN  IF o1.err # NoErr THEN [err |-> o1.err, a |-> NoneVal, b |-> NoneVal]
        ELSE LET o2 == get_operand_value(s, operands[2])
             IN  IF o2.err # NoErr THEN [err |-> o2.err, a |-> NoneVal, b |-> NoneVal]
                 ELSE [err |-> NoErr, a |-> [none |-> o1.none, v |-> o1.v],
                                      b |-> [none |-> o2.none, v |-> o2.v]]

\* a variant of add that stores the sum into its second operand
add_into_source(s, operands) ==
    IF Len(operands) # 2 THEN s
    ELSE LET o == TwoOperands(s, operands)
         IN  IF o.err # NoErr THEN Raise(s, o.err)
             ELSE IF o.a.none \/ o.b.none THEN Raise(s, "TypeError")
             ELSE store_result(s, operands[2], o.a.v + o.b.v)

add(s, operands) ==
    IF Len(operands) # 2 THEN s
    ELSE LET o == TwoOperands(s, operands)
         IN  IF o.err # NoErr THEN Raise(s, o.err)
             ELSE IF o.a.none \/ o.b.none THEN Raise(s, "TypeError")
             ELSE store_result(s, operands[1], o.a.v + o.b.v)

sub(s, operands) ==
    IF Len(operands) # 2 THEN s
    ELSE LET o == TwoOperands(s, operands)
         IN  IF o.err # NoErr THEN Raise(s, o.err)
             ELSE IF o.a.none \/ o.b.none THEN Raise(s, "TypeError")
             ELSE store_result(s, operands[1], o.a.v - o.b.v)

mul(s, operands) ==
    IF Len(operands) # 2 THEN s
    ELSE LET o == TwoOperands(s, operands)
         IN  IF o.err # NoErr THEN Raise(s, o.err)
             ELSE IF o.a.none \/ o.b.none THEN Raise(s, "TypeError")
             ELSE store_result(s, operands[1], o.a.v * o.b.v)

\* a variant of div that stores 0 before raising on a zero divisor
div_stores_before_raise(s, operands) ==
    IF Len(operands) # 2 THEN s
    ELSE LET o == TwoOperands(s, operands)
         IN  IF o.err # NoErr THEN Raise(s, o.err)
             ELSE IF ~ o.b.none /\ o.b.v = 0
             THEN Raise(store_result(s, operands[1], 0), "DivisionByZeroException")
             ELSE IF o.a.none \/ o.b.none THEN Raise(s, "TypeError")
             ELSE store_result(s, operands[1], FloorDiv(o.a.v, o.b.v))

div(s, operands) ==
    IF Len(operands) # 2 THEN s
    ELSE LET o == TwoOperands(s, operands)
         IN  IF o.err # NoErr THEN Raise(s, o.err)
             ELSE IF ~ o.b.none /\ o.b.v = 0 THEN Raise(s, "DivisionByZeroException")
             ELSE IF o.a.none \/ o.b.none THEN Raise(s, "TypeError")
             ELSE store_result(s, operands[1], FloorDiv(o.a.v, o.b.v))

\* the four assignments of cmp, for operand values that are not None
CmpFlags(f, operand1, operand2) ==
    [f EXCEPT !.ZF = (operand1 = operand2),
              !.SF = ((operand1 - operand2) < 0),
              !.CF = (operand1 < operand2),
              !.OF = (((operand1 - operand2) > 32767) \/ ((operand1 - operand2) < -32768))]

cmp(s, operands) ==
    IF Len(operands) # 2 THEN s
    ELSE LET o == TwoOperands(s, operands)
         IN  IF o.err # NoErr THEN Raise(s, o.err)
             ELSE IF o.a.none \/ o.b.none
             THEN \* ZF is assigned, then the subtraction raises
                  [s EXCEPT !.flags.ZF = (o.a.none /\ o.b.none), !.err = "TypeError"]
             ELSE [s EXCEPT !.flags = CmpFlags(s.flags, o.a.v, o.b.v)]

\* self.program_counter = self.memory.goto_label(operands[0])
JumpTo(s, operand) ==
    LET g == goto_label(s.labels, operand.text)
    IN  IF g.err # NoErr THEN Raise(s, g.err) ELSE [s EXCEPT !.pc = g.v]

jmp(s, operands) ==
    IF Len(operands) # 1 THEN s ELSE JumpTo(s, operands[1])

\* a variant of je that tests the flag the way jne does
je_tests_not_zf(s, operands) ==
    IF Len(operands) # 1 THEN s
    ELSE IF ~ s.flags.ZF THEN JumpTo(s, operands[1]) ELSE s

je(s, operands) ==
    IF Len(operands) # 1 THEN s
    ELSE IF s.flags.ZF THEN JumpTo(s, operands[1]) ELSE s

jne(s, operands) ==
    IF Len(operands) # 1 THEN s
    ELSE IF ~ s.flags.ZF THEN JumpTo(s, operands[1]) ELSE s

jg(s, operands) ==
    IF Len(operands) # 1 THEN s
    ELSE IF ~ s.flags.ZF /\ s.flags.SF = s.flags.OF THEN JumpTo(s, operands[1]) ELSE s

jl(s, operands) ==
    IF Len(operands) # 1 THEN s
    ELSE IF s.flags.SF /\ ~ s.flags.ZF THEN JumpTo(s, operands[1]) ELSE s

jge(s, operands) ==
    IF Len(operands) # 1 THEN s
    ELSE IF s.flags.SF = s.flags.ZF THEN JumpTo(s, operands[1]) ELSE s

jle(s, operands) ==
    IF Len(operands) # 1 THEN s
    ELSE IF s.flags.ZF \/ s.flags.SF # s.flags.OF THEN JumpTo(s, operands[1]) ELSE s

push(s, operands) ==
    IF Len(operands) # 1 THEN s
    ELSE [s EXCEPT !.stack = Append(s.stack, StackStr(operands[1].text))]

pop(s, operands) ==
    IF Len(operands) # 1 THEN s
    ELSE IF s.stack = <<>> THEN Raise(s, "IndexError")
    ELSE [s EXCEPT !.stack = SubSeq(s.stack, 1, Len(s.stack) - 1)]

call(s, operands) ==
    IF Len(operands) # 1 THEN s
    ELSE JumpTo([s EXCEPT !.stack = Append(s.stack, StackInt(s.pc))], operands[1])

\* "if label:" — a non-zero int or a non-empty string
Truthy(label) ==
    IF label.isint THEN label.n # 0 ELSE label.text # ""

\* a variant of ret that reads the top of the stack and leaves it there
ret_peeks(s, operands) ==
    IF s.stack = <<>> THEN s
    ELSE LET label == s.stack[Len(s.stack)]
         IN  IF ~ Truthy(label) THEN s
             ELSE IF label.isint THEN [s EXCEPT !.pc = label.n]
             ELSE JumpTo(s, label)

ret(s, operands) ==
    IF s.stack = <<>> THEN s
    ELSE LET label == s.stack[Len(s.stack)]
             s1    == [s EXCEPT !.stack = SubSeq(s.stack, 1, Len(s.stack) - 1)]
         IN  IF ~ Truthy(label) THEN s1
             ELSE IF label.isint THEN [s1 EXCEPT !.pc = label.n]
             ELSE JumpTo(s1, label)

\* A Python integer v as the word [hi, lo] with v = hi * 2^16 + lo and
\* 0 <= lo < 2^16: the results of NOT reach 2^32 - 1, beyond the integers of
\* the model checker.
Word(v) == [hi |-> v \div 65536, lo |-> v % 65536]
Narrow(w) == w.hi * 65536 + w.lo

\* ~operand & 0xFFFFFFFF on words: ~v = -v - 1 = (-hi - 1) * 2^16 + (2^16 - 1 - lo),
\* and the mask keeps the low 16 bits of the high half
NotMaskedWord(w) == [hi |-> (- w.hi - 1) % 65536, lo |-> 65535 - w.lo]

\* ~operand & 0xFFFFFFFF
NotMasked(operand) == Narrow(NotMaskedWord(Word(operand)))

\* a variant of not_op_words that stores what assert_16_bit returns
not_op_words_clamped(regs, operands) ==
    IF Len(operands) # 1 THEN [err |-> "ValueError", regs |-> regs]
    ELSE IF check_register_index(operands[1].n) # NoErr
    THEN [err |-> "ValueError", regs |-> regs]
    ELSE LET r == NotMaskedWord(regs[operands[1].n])
             c == IF r.hi > 0 \/ (r.hi = 0 /\ r.lo > 32767) THEN Word(32767)
                  ELSE IF r.hi < -1 \/ (r.hi = -1 /\ r.lo < 32768) THEN Word(-32768)
                  ELSE r
         IN  [err |-> NoErr, regs |-> [regs EXCEPT ![operands[1].n] = c]]

\* not_op with a register operand, on registers that hold words: [err, regs]
not_op_words(regs, operands) ==
    IF Len(operands) # 1 THEN [err |-> "ValueError", regs |-> regs]
    ELSE IF check_register_index(operands[1].n) # NoErr
    THEN [err |-> "ValueError", regs |-> regs]
    ELSE [err |-> NoErr,
          regs |-> [regs EXCEPT ![operands[1].n] = NotMaskedWord(regs[operands[1].n])]]

not_op(s, operands) ==
    IF Len(operands) # 1 THEN Raise(s, "ValueError")
    ELSE LET o == get_operand_value(s, operands[1])
         IN  IF o.err # NoErr THEN Raise(s, o.err)
             ELSE IF o.none THEN Raise(s, "TypeError")
             ELSE store_result(s, operands[1], NotMasked(o.v))

\* a variant of and_op that sets ZF from its result
and_op_sets_zf(s, operands) ==
    IF Len(operands) # 2 THEN Raise(s, "ValueError")
    ELSE LET o == TwoOperands(s, operands)
         IN  IF o.err # NoErr THEN Raise(s, o.err)
             ELSE IF o.a.none \/ o.b.none THEN Raise(s, "TypeError")
             ELSE [store_result(s, operands[1], BitAnd(o.a.v, o.b.v))
                      EXCEPT !.flags.ZF = (BitAnd(o.a.v, o.b.v) = 0)]

and_op(s, operands) ==
    IF Len(operands) # 2 THEN Raise(s, "ValueError")
    ELSE LET o == TwoOperands(s, operands)
         IN  IF o.err # NoErr THEN Raise(s, o.err)
             ELSE IF o.a.none \/ o.b.none THEN Raise(s, "TypeError")
             ELSE store_result(s, operands[1], BitAnd(o.a.v, o.b.v))

or_op(s, operands) ==
    IF Len(operands) # 2 THEN Raise(s, "ValueError")
    ELSE LET o == TwoOperands(s, operands)
         IN  IF o.err # NoErr THEN Raise(s, o.err)
             ELSE IF o.a.none \/ o.b.none THEN Raise(s, "TypeError")
             ELSE store_result(s, operands[1], BitOr(o.a.v, o.b.v))

xor_op(s, operands) ==
    IF Len(operands) # 2 THEN Raise(s, "ValueError")
    ELSE LET o == TwoOperands(s, operands)
         IN  IF o.err # NoErr THEN Raise(s, o.err)
             ELSE IF o.a.none \/ o.b.none THEN Raise(s, "TypeError")
             ELSE store_result(s, operands[1], BitXor(o.a.v, o.b.v))

shl(s, operands) ==
    IF Len(operands) # 2 THEN s
    ELSE LET o == TwoOperands(s, operands)
         IN  IF o.err # NoErr THEN Raise(s, o.err)
             ELSE IF o.a.none \/ o.b.none THEN Raise(s, "TypeError")
             ELSE IF o.b.v < 0 THEN Raise(s, "ValueError")
             ELSE store_result(s, operands[1], o.a.v * Pow2(o.b.v))

shr(s, operands) ==
    IF Len(operands) # 2 THEN s
    ELSE LET o == TwoOperands(s, operands)
         IN  IF o.err # NoErr THEN Raise(s, o.err)
             ELSE IF o.a.none \/ o.b.none THEN Raise(s, "TypeError")
             ELSE IF o.b.v < 0 THEN Raise(s, "ValueError")
             ELSE store_result(s, operands[1], FloorDiv(o.a.v, Pow2(o.b.v)))

\* a label line is stored as None
NoneInstr == [op |-> "None", operands |-> <<>>]
Instr(op, operands) == [op |-> op, operands |-> operands]

\* execute_instruction
execute_instruction(s, instruction) ==
    LET t  == instruction.op
        os == instruction.operands
    IN  CASE t = "None" -> s
          [] t = "MOV"  -> mov(s, os)
          [] t = "ADD"  -> add(s, os)
          [] t = "SUB"  -> sub(s, os)
          [] t = "MUL"  -> mul(s, os)
          [] t = "DIV"  -> div(s, os)
          [] t = "CMP"  -> cmp(s, os)
          [] t = "JMP"  -> jmp(s, os)
          [] t = "JE"   -> je(s, os)
          [] t = "JNE"  -> jne(s, os)
          [] t = "JG"   -> jg(s, os)
          [] t = "JL"   -> jl(s, os)
          [] t = "JGE"  -> jge(s, os)
          [] t = "JLE"  -> jle(s, os)
          [] t = "PUSH" -> push(s, os)
          [] t = "POP"  -> pop(s, os)
          [] t = "CALL" -> call(s, os)
          [] t = "RET"  -> ret(s, os)
          [] t = "NOT"  -> not_op(s, os)
          [] t = "AND"  -> and_op(s, os)
          [] t = "OR"   -> or_op(s, os)
          [] t = "XOR"  -> xor_op(s, os)
          [] t = "SHL"  -> shl(s, os)
          [] t = "SHR"  -> shr(s, os)

-----------------------------------------------------------------------------
(* Processor.py: the loader.  A source line is [head, colon, operands]:     *)
(* head is its first token without a trailing colon ("" for a blank or      *)
(* comment line), colon tells whether that token ends with ":", operands    *)
(* are the remaining tokens up to the first ";", commas removed.            *)

Line(head, operands) == [head |-> head, colon |-> FALSE, operands |-> operands]
LabelLine(name, operands) == [head |-> name, colon |-> TRUE, operands |-> operands]
BlankLine == [head |-> "", colon |-> FALSE, operands |-> <<>>]

\* parse_instruction on (instruction_memory, labels): [err, im, lb]
parse_instruction(m, line) ==
    IF line.head = "" /\ ~ line.colon THEN m
    ELSE IF ~ line.colon /\ line.head \in InstructionTypes
    THEN add_instruction(m, Instr(line.head, line.operands), "")
    ELSE IF line.colon THEN add_instruction(m, NoneInstr, line.head)
    ELSE m

\* parse_file's loop over the lines from line i on
RECURSIVE ParseLines(_, _, _)
ParseLines(m, lines, i) ==
    IF i > Len(lines) \/ m.err # NoErr THEN m
    ELSE ParseLines(parse_instruction(m, lines[i]), lines, i + 1)

-----------------------------------------------------------------------------
(* The source files and the memory configurations of the model *)

\* a data address outside the video range and off the keyboard cell
\* (tests/test_memory.py, test_data_memory_operations)
PlainAddress == 2010

\* Memory(8192, 4096, 4095, 0, 1023) is the configuration of tests/test_memory.py;
\* the second one puts the keyboard cell inside the video range, which
\* Memory.__init__ accepts; the third one has a negative keyboard address,
\* which Memory.__init__ accepts too
Configs ==
    { [isize |-> 8192, dsize |-> 4096, kb |-> 4095, vs |-> 0, ve |-> 1023],
      [isize |-> 1024, dsize |-> 2048, kb |-> 5, vs |-> 0, ve |-> 1023],
      [isize |-> 1024, dsize |-> 4096, kb |-> -1, vs |-> 0, ve |-> 99] }

File(name, op, a, b) == [name |-> name, op |-> op, a |-> a, b |-> b]

\* file_name = None
NoFile == File("", "", 0, 0)

MovValues == {5, 40000, -40000}
ArithOps == {"ADD", "SUB", "MUL", "DIV"}
ArithLeft == {-7, 32767}
ArithRight == {0, 2}
CmpValues == {-32768, 0, 5, 32767}
JumpOps == {"JE", "JNE", "JG", "JL", "JGE", "JLE"}
KbdFiles == {"kbd_direct", "kbd_indirect", "kbd_to_video", "kbd_to_kbd", "kbd_twice"}
FaultFiles == {"jmp_unknown", "je_unknown", "read_out_of_range", "write_negative",
               "write_kbd", "add_kbd", "div_first"}
\* writes aimed at the keyboard cell, and a write to the last data cell
KbdWriteFiles == {"write_kbd_reg", "xor_kbd", "write_last"}
\* a line with an unknown first token; POP and RET on an empty stack
LoaderFiles == {"unknown_opcode"}
StackFiles == {"pop_empty", "ret_empty"}
\* the instructions of the files "arity", each with one operand too many or
\* one too few
ArityOps == {"JMP", "PUSH", "POP", "CALL", "MOV", "ADD", "NOT", "AND"}
PushValues == {5, -7}
\* PUSH of a label name or of a register name followed by RET; CALL of an
\* unknown label
StackLabelFiles == {"stack_label", "stack_bad", "call_unknown"}
\* the scenario sources, as written (no blank after the comma, an instruction
\* on the label's line) and with blanks after the commas
ScenarioFiles == {"add_regs", "loop", "loop_spaced", "call_scenario",
                  "call_scenario_spaced", "labels"}
DivPairs == {<<-7, 2>>, <<7, -2>>, <<7, 2>>, <<-7, -2>>}
UninitOps == {"ADD", "SUB", "CMP"}
\* NOT, the bitwise operations and the shifts after a CMP: <<value, second
\* operand or shift count>>
BitOps == {"NOT", "AND", "OR", "XOR", "SHL", "SHR"}
BitPairs == {<<-7, 2>>, <<-32768, 15>>, <<5, 0>>}

Files ==
    { File("mov", "MOV", a, 0) : a \in MovValues }
    \cup { File("arith", op, a, b) : op \in ArithOps, a \in ArithLeft, b \in ArithRight }
    \cup { File("cmp", j, a, b) : j \in JumpOps, a \in CmpValues, b \in CmpValues }
    \cup { File("call", "CALL", c, 0) : c \in {0, 1} }
    \cup { File(n, "", 0, 0) : n \in KbdFiles \cup FaultFiles \cup {"video"} }
    \cup { File(n, "", 0, 0) : n \in KbdWriteFiles \cup LoaderFiles \cup StackFiles }
    \cup { File("store", "MOV", a, 0) : a \in MovValues }
    \cup { File("arity", op, 0, 0) : op \in ArityOps }
    \cup { File("push_pop", "PUSH", a, 0) : a \in PushValues }
    \cup { File(n, "", 0, 0) : n \in StackLabelFiles \cup ScenarioFiles }
    \cup { File("div", "DIV", p[1], p[2]) : p \in DivPairs }
    \cup { File("uninit", op, 0, 0) : op \in UninitOps }
    \cup { File("bits", op, p[1], p[2]) : op \in BitOps \ {"NOT"}, p \in BitPairs }
    \cup { File("bits", "NOT", p[1], p[2]) : p \in {q \in BitPairs : q[1] < 0} }

\* the lines of the file f, for a memory with keyboard cell K, video range V..VE
\* and data_memory_size DS
FileContents(f, K, V, VE, DS) ==
    CASE f.name = "mov" ->
            << Line("MOV", <<Reg(0), Imm(f.a)>>),
               Line("MOV", <<Reg(1), Reg(0)>>),
               Line("MOV", <<Mem(PlainAddress), Reg(0)>>) >>
      [] f.name = "arith" ->
            << Line("MOV", <<Reg(0), Imm(f.a)>>),
               Line("MOV", <<Reg(1), Imm(f.b)>>),
               Line(f.op, <<Reg(0), Reg(1)>>),
               Line("MOV", <<Mem(V), Reg(0)>>) >>
      [] f.name = "cmp" ->
            << BlankLine,
               Line("CMP", <<Imm(f.a), Imm(f.b)>>),
               Line(f.op, <<Ident("target")>>),
               Line("MOV", <<Reg(2), Imm(1)>>),
               LabelLine("target", <<>>),
               Line("MOV", <<Reg(3), Imm(1)>>) >>
      [] f.name = "call" ->
            (IF f.a = 0 THEN <<>> ELSE << Line("MOV", <<Reg(3), Imm(1)>>) >>)
            \o << Line("CALL", <<Ident("f")>>),
                  Line("MOV", <<Reg(0), Imm(7)>>),
                  Line("JMP", <<Ident("halt")>>),
                  LabelLine("f", <<>>),
                  Line("MOV", <<Reg(1), Imm(9)>>),
                  Line("RET", <<>>),
                  LabelLine("halt", <<>>) >>
      [] f.name = "video" ->
            << Line("MOV", <<Mem(V), Imm(321)>>),
               Line("ADD", <<Mem(V), Imm(1000)>>),
               Line("XOR", <<Mem(V), Imm(-1)>>),
               Line("MOV", <<Reg(2), Imm(VE)>>),
               Line("MOV", <<MemReg(2), Imm(-2)>>),
               Line("SUB", <<MemReg(2), Imm(300)>>) >>
      [] f.name = "kbd_direct" ->
            << Line("MOV", <<Reg(0), Mem(K)>>),
               Line("MOV", <<Reg(1), Imm(1)>>) >>
      [] f.name = "kbd_indirect" ->
            << Line("MOV", <<Reg(2), Imm(K)>>),
               Line("MOV", <<Reg(0), MemReg(2)>>),
               Line("MOV", <<Reg(1), Imm(1)>>) >>
      [] f.name = "kbd_to_video" ->
            << Line("MOV", <<Mem(VE), Mem(K)>>),
               Line("MOV", <<Reg(1), Imm(1)>>) >>
      [] f.name = "kbd_to_kbd" ->
            << Line("MOV", <<Reg(0), Imm(3)>>),
               Line("MOV", <<Mem(K), Mem(K)>>),
               Line("MOV", <<Reg(1), Imm(1)>>) >>
      [] f.name = "kbd_twice" ->
            << Line("MOV", <<Reg(0), Mem(K)>>),
               Line("MOV", <<Reg(1), Mem(K)>>) >>
      [] f.name = "jmp_unknown" ->
            << Line("MOV", <<Reg(0), Imm(3)>>),
               Line("JMP", <<Ident("nowhere")>>) >>
      [] f.name = "je_unknown" ->
            << Line("CMP", <<Reg(0), Imm(0)>>),
               Line("JE", <<Ident("nowhere")>>) >>
      [] f.name = "read_out_of_range" ->
            << Line("MOV", <<Reg(0), Imm(3)>>),
               Line("ADD", <<Reg(0), Mem(DS)>>) >>
      [] f.name = "write_negative" ->
            << Line("MOV", <<Reg(0), Imm(-1)>>),
               Line("MOV", <<MemReg(0), Imm(3)>>) >>
      [] f.name = "write_kbd" ->
            << Line("MOV", <<Reg(0), Imm(3)>>),
               Line("MOV", <<Mem(K), Reg(0)>>) >>
      [] f.name = "add_kbd" ->
            << Line("MOV", <<Reg(0), Imm(3)>>),
               Line("ADD", <<Reg(0), Mem(K)>>) >>
      [] f.name = "div_first" ->
            << Line("DIV", <<Reg(0), Reg(1)>>) >>
      [] f.name = "write_kbd_reg" ->
            << Line("MOV", <<Reg(2), Imm(K)>>),
               Line("MOV", <<MemReg(2), Imm(3)>>) >>
      [] f.name = "xor_kbd" ->
            << Line("MOV", <<Reg(0), Imm(3)>>),
               Line("XOR", <<Mem(K), Reg(0)>>) >>
      [] f.name = "write_last" ->
            << Line("MOV", <<Mem(DS - 1), Imm(7)>>),
               Line("MOV", <<Reg(1), Imm(1)>>) >>
      [] f.name = "store" ->
            << Line("MOV", <<Mem(PlainAddress), Imm(f.a)>>) >>
      [] f.name = "unknown_opcode" ->
            << Line("MOV", <<Reg(0), Imm(1)>>),
               Line("FOO", <<Reg(1), Imm(2)>>),
               Line("MOV", <<Reg(2), Imm(3)>>) >>
      [] f.name = "arity" ->
            << Line("MOV", <<Reg(0), Imm(3)>>),
               Line(f.op, CASE f.op \in {"JMP", "CALL"} -> <<Ident("f"), Ident("g")>>
                            [] f.op \in {"PUSH", "POP", "NOT"} -> <<Reg(0), Reg(1)>>
                            [] OTHER -> <<Reg(0)>>),
               Line("MOV", <<Reg(1), Imm(1)>>),
               LabelLine("f", <<>>),
               LabelLine("g", <<>>) >>
      [] f.name = "pop_empty" ->
            << Line("MOV", <<Reg(0), Imm(3)>>),
               Line("POP", <<Reg(0)>>),
               Line("MOV", <<Reg(1), Imm(1)>>) >>
      [] f.name = "ret_empty" ->
            << Line("MOV", <<Reg(0), Imm(3)>>),
               Line("RET", <<>>),
               Line("MOV", <<Reg(1), Imm(1)>>) >>
      [] f.name = "push_pop" ->
            << Line("MOV", <<Reg(0), Imm(f.a)>>),
               Line("PUSH", <<Reg(0)>>),
               Line("POP", <<Reg(1)>>),
               Line("MOV", <<Reg(2), Imm(1)>>) >>
      [] f.name = "stack_label" ->
            << Line("PUSH", <<Ident("end")>>),
               Line("RET", <<>>),
               Line("MOV", <<Reg(0), Imm(1)>>),
               LabelLine("end", <<>>),
               Line("MOV", <<Reg(1), Imm(1)>>) >>
      [] f.name = "stack_bad" ->
            << Line("PUSH", <<Reg(0)>>),
               Line("RET", <<>>),
               Line("MOV", <<Reg(1), Imm(1)>>) >>
      [] f.name = "call_unknown" ->
            << Line("MOV", <<Reg(0), Imm(3)>>),
               Line("CALL", <<Ident("nowhere")>>) >>
      [] f.name = "add_regs" ->
            << Line("MOV", <<Reg(0), Imm(2)>>),
               Line("MOV", <<Reg(1), Imm(3)>>),
               Line("ADD", <<Reg(0), Reg(1)>>) >>
      \* MOV R0,#0 / loop: ADD R0,#1 / CMP R0,#3 / JL loop: "R0,#0" is one
      \* token, and the comma is removed from it
      [] f.name = "loop" ->
            << Line("MOV", <<BadNumber("R", "R0#0")>>),
               LabelLine("loop", <<Ident("ADD"), BadNumber("R", "R0#1")>>),
               Line("CMP", <<BadNumber("R", "R0#3")>>),
               Line("JL", <<Ident("loop")>>) >>
      [] f.name = "loop_spaced" ->
            << Line("MOV", <<Reg(0), Imm(0)>>),
               LabelLine("loop", <<Ident("ADD"), Reg(0), Imm(1)>>),
               Line("CMP", <<Reg(0), Imm(3)>>),
               Line("JL", <<Ident("loop")>>) >>
      \* CALL f / MOV R0,#7 / halt: / f: MOV R1,#9 / RET
      [] f.name = "call_scenario" ->
            << Line("CALL", <<Ident("f")>>),
               Line("MOV", <<BadNumber("R", "R0#7")>>),
               LabelLine("halt", <<>>),
               LabelLine("f", <<Ident("MOV"), BadNumber("R", "R1#9")>>),
               Line("RET", <<>>) >>
      [] f.name = "call_scenario_spaced" ->
            << Line("CALL", <<Ident("f")>>),
               Line("MOV", <<Reg(0), Imm(7)>>),
               LabelLine("halt", <<>>),
               LabelLine("f", <<Ident("MOV"), Reg(1), Imm(9)>>),
               Line("RET", <<>>) >>
      [] f.name = "labels" ->
            << Line("JMP", <<Ident("b")>>),
               LabelLine("c", <<>>),
               LabelLine("b", <<>>),
               Line("MOV", <<Reg(0), Imm(1)>>),
               LabelLine("a", <<>>),
               Line("MOV", <<Reg(1), Imm(1)>>),
               Line("JMP", <<Ident("end")>>),
               LabelLine("a", <<>>),
               Line("MOV", <<Reg(2), Imm(1)>>),
               LabelLine("end", <<>>) >>
      [] f.name = "div" ->
            << Line("MOV", <<Reg(0), Imm(f.a)>>),
               Line("MOV", <<Reg(1), Imm(f.b)>>),
               Line("DIV", <<Reg(0), Reg(1)>>) >>
      [] f.name = "bits" ->
            << Line("MOV", <<Reg(0), Imm(f.a)>>),
               Line("MOV", <<Reg(1), Imm(f.b)>>),
               Line("CMP", <<Reg(0), Reg(1)>>),
               Line(f.op, IF f.op = "NOT" THEN <<Reg(0)>> ELSE <<Reg(0), Reg(1)>>) >>
      [] f.name = "uninit" ->
            << Line("MOV", <<Reg(0), Imm(5)>>),
               Line("MOV", <<Reg(0), Mem(PlainAddress)>>),
               Line(f.op, <<Reg(1), Mem(PlainAddress)>>),
               Line("MOV", <<Reg(2), Imm(1)>>) >>

\* the key codes the model presses: Enter, '2', '4', 'a' (GUI.create_keyboard_buttons)
KeyCodes == {13, 50, 52, 97}

-----------------------------------------------------------------------------
(* Processor.execute_program: one tick of the host driver *)

\* the processor, its memory and its keyboard, as the methods see them
State ==
    [regs     |-> data_registers,
     flags    |-> flags,
     pc       |-> program_counter,
     stack    |-> stack_pointer,
     parsed   |-> is_file_parsed,
     reading  |-> is_reading_input,
     input    |-> input,
     dest     |-> input_destination,
     im       |-> instruction_memory,
     labels   |-> labels,
     data     |-> data_memory,
     kq       |-> key_queue,
     consumed |-> consumed,
     err      |-> NoErr,
     last     |-> last]

Last(kind, op, pc) == [kind |-> kind, op |-> op, pc |-> pc]

\* parse_file, then "if self.program_counter is None: self.program_counter = 0"
ParseStep(s) ==
    LET m == ParseLines([err |-> NoErr, im |-> s.im, lb |-> s.labels],
                        FileContents(file_name, keyboard_buffer_address,
                                     video_memory_start, video_memory_end,
                                     memory_sizes.data_memory_size), 1)
    IN  IF m.err # NoErr
        THEN [s EXCEPT !.im = m.im, !.labels = m.lb, !.err = m.err,
                       !.last = Last("parse", "", s.pc)]
        ELSE [s EXCEPT !.im = m.im, !.labels = m.lb, !.parsed = TRUE,
                       !.pc = IF s.pc = None THEN 0 ELSE s.pc]

\* a variant of RunStep without the return after reading_input()
RunStep_no_return(s) ==
    LET s0 == IF s.reading THEN reading_input(s) ELSE s
    IN  IF s0.err # NoErr THEN [s0 EXCEPT !.last = Last("drain", "", s.pc)]
        ELSE IF check_instruction_memory_address(s0.im, s0.pc)
        THEN LET instruction == s0.im[s0.pc + 1]
                 r == execute_instruction(s0, instruction)
                 k == IF s.reading THEN "drain" ELSE "exec"
             IN  IF r.err # NoErr
                 THEN [r EXCEPT !.last = Last(k, instruction.op, s.pc)]
                 ELSE [r EXCEPT !.pc = r.pc + 1, !.last = Last(k, instruction.op, s.pc)]
        ELSE [s0 EXCEPT !.last = Last(IF s.reading THEN "drain" ELSE "halted", "", s.pc)]

\* a variant of RunStep that adds 1 to program_counter also when there is no
\* instruction at it
RunStep_counts_when_halted(s) ==
    IF s.reading
    THEN [reading_input(s) EXCEPT !.last = Last("drain", "", s.pc)]
    ELSE IF check_instruction_memory_address(s.im, s.pc)
    THEN LET instruction == s.im[s.pc + 1]
             r == execute_instruction(s, instruction)
         IN  IF r.err # NoErr
             THEN [r EXCEPT !.last = Last("exec", instruction.op, s.pc)]
             ELSE [r EXCEPT !.pc = r.pc + 1, !.last = Last("exec", instruction.op, s.pc)]
    ELSE [s EXCEPT !.pc = s.pc + 1, !.last = Last("halted", "", s.pc)]

\* the part of execute_program after the file has been parsed
RunStep(s) ==
    IF s.reading
    THEN [reading_input(s) EXCEPT !.last = Last("drain", "", s.pc)]
    ELSE IF check_instruction_memory_address(s.im, s.pc)
    THEN LET instruction == s.im[s.pc + 1]
             r == execute_instruction(s, instruction)
         IN  IF r.err # NoErr
             THEN [r EXCEPT !.last = Last("exec", instruction.op, s.pc)]
             ELSE [r EXCEPT !.pc = r.pc + 1, !.last = Last("exec", instruction.op, s.pc)]
    ELSE [s EXCEPT !.last = Last("halted", "", s.pc)]

execute_program(s) ==
    IF file_name = NoFile THEN [s EXCEPT !.last = Last("nofile", "", s.pc)]
    ELSE IF ~ s.parsed
    THEN LET p == ParseStep(s)
         IN  IF p.err # NoErr THEN p ELSE RunStep(p)
    ELSE RunStep(s)

\* the state s written back to the variables
Commit(s) ==
    /\ data_registers' = s.regs
    /\ flags' = s.flags
    /\ program_counter' = s.pc
    /\ stack_pointer' = s.stack
    /\ is_file_parsed' = s.parsed
    /\ is_reading_input' = s.reading
    /\ input' = s.input
    /\ input_destination' = s.dest
    /\ instruction_memory' = s.im
    /\ labels' = s.labels
    /\ data_memory' = s.data
    /\ key_queue' = s.kq
    /\ consumed' = s.consumed
    /\ last' = [kind |-> s.last.kind, op |-> s.last.op, pc |-> s.last.pc, err |-> s.err]

Init ==
    /\ \E c \in Configs :
          /\ MemoryInitError(c.isize, c.dsize, c.kb, c.vs, c.ve) = NoErr
          /\ memory_sizes = [instruction_memory_size |-> c.isize, data_memory_size |-> c.dsize]
          /\ keyboard_buffer_address = c.kb
          /\ video_memory_start = c.vs
          /\ video_memory_end = c.ve
          \* GUI.__init__ installs the keyboard; the tests run without a GUI
          /\ \E gui \in BOOLEAN :
                data_memory = IF gui THEN set_keyboard_pointer(<<>>, c.kb) ELSE <<>>
    /\ instruction_memory = <<>>
    /\ labels = <<>>
    /\ data_registers = [i \in 0..(NumRegisters - 1) |-> 0]
    /\ flags = [CF |-> FALSE, PF |-> FALSE, ZF |-> FALSE, SF |-> FALSE, OF |-> FALSE]
    /\ program_counter = None
    /\ stack_pointer = <<>>
    /\ is_file_parsed = FALSE
    /\ file_name \in Files \cup {NoFile}
    /\ is_reading_input = FALSE
    /\ input = <<>>
    /\ input_destination = NoOperand
    /\ key_queue = <<>>
    /\ drain_pc = "idle"
    /\ last = [kind |-> "init", op |-> "", pc |-> None, err |-> NoErr]
    /\ pushed = <<>>
    /\ consumed = <<>>
    /\ ticks = 0

\* GUI.run_program: processor.execute_program()
Tick ==
    /\ ticks < MaxTicks
    /\ drain_pc = "idle"
    /\ ticks' = ticks + 1
    /\ Commit(execute_program(State))
    /\ UNCHANGED <<memory_sizes, keyboard_buffer_address, video_memory_start,
                   video_memory_end, file_name, drain_pc, pushed>>

\* GUI.key_press: keyboard.input_character(ord(char)); the Keyboard is the one
\* the keyboard cell points to
Push ==
    /\ KeyboardInstalled(data_memory, keyboard_buffer_address)
    /\ Len(pushed) < MaxPushes
    /\ \E character \in KeyCodes :
          /\ key_queue' = input_character(key_queue, character)
          /\ pushed' = Append(pushed, character)
    /\ UNCHANGED <<memory_sizes, keyboard_buffer_address, video_memory_start,
                   video_memory_end, instruction_memory, data_memory, labels,
                   data_registers, flags, program_counter, stack_pointer,
                   is_file_parsed, file_name, is_reading_input, input,
                   input_destination, drain_pc, last, consumed, ticks>>

Next == Tick \/ Push

Spec == Init /\ [][Next]_vars

-----------------------------------------------------------------------------
(* The same machine with reading_input taken one Keyboard call at a time,   *)
(* so that key presses fall between has_characters() and                    *)
(* get_next_character().  drain_pc is the place in reading_input:           *)
(* "idle" (no tick in progress), "has" (about to call has_characters) or    *)
(* "get" (about to call get_next_character).                                *)

\* a tick that does not enter reading_input
TickRun ==
    /\ ~ (file_name # NoFile /\ is_reading_input)
    /\ Tick

\* a tick that enters reading_input: up to the keyboard pointer test
DrainBegin ==
    /\ ticks < MaxTicks
    /\ drain_pc = "idle"
    /\ file_name # NoFile /\ is_reading_input
    /\ ticks' = ticks + 1
    /\ last' = [kind |-> "drain", op |-> "", pc |-> program_counter,
                 err |-> IF get_keyboard_pointer(data_memory, keyboard_buffer_address)
                            /\ ~ KeyboardInstalled(data_memory, keyboard_buffer_address)
                         THEN "AttributeError" ELSE NoErr]
    /\ drain_pc' = IF KeyboardInstalled(data_memory, keyboard_buffer_address)
                   THEN "has" ELSE "idle"
    /\ UNCHANGED <<memory_sizes, keyboard_buffer_address, video_memory_start,
                   video_memory_end, instruction_memory, data_memory, labels,
                   data_registers, flags, program_counter, stack_pointer,
                   is_file_parsed, file_name, is_reading_input, input,
                   input_destination, key_queue, pushed, consumed>>

\* while keyboard.has_characters():
DrainHas ==
    /\ drain_pc = "has"
    /\ drain_pc' = IF has_characters(key_queue) THEN "get" ELSE "idle"
    /\ UNCHANGED <<memory_sizes, keyboard_buffer_address, video_memory_start,
                   video_memory_end, instruction_memory, data_memory, labels,
                   data_registers, flags, program_counter, stack_pointer,
                   is_file_parsed, file_name, is_reading_input, input,
                   input_destination, key_queue, last, pushed, consumed, ticks>>

\* char = keyboard.get_next_character() and the rest of the loop body
DrainGet ==
    /\ drain_pc = "get"
    /\ LET r == LoopBody(State)
       IN  /\ Commit(r.s)
           /\ drain_pc' = IF r.stop THEN "idle" ELSE "has"
    /\ UNCHANGED <<memory_sizes, keyboard_buffer_address, video_memory_start,
                   video_memory_end, file_name, pushed, ticks>>

NextDrain == TickRun \/ DrainBegin \/ DrainHas \/ DrainGet \/ Push

\* the files that read the keyboard
InitDrain == Init /\ file_name.name \in KbdFiles

SpecDrain == InitDrain /\ [][NextDrain]_vars

\* the machine on the files that read the keyboard, with the main loop of
\* the GUI calling run_program again and again
\* the guard of Tick and its step of the counter: in a behaviour of Next the
\* steps that change ticks are the Tick steps, and Tick is enabled whenever
\* its guard holds
TickStep == ticks < MaxTicks /\ drain_pc = "idle" /\ ticks' = ticks + 1

SpecFair == InitDrain /\ [][Next]_vars /\ WF_ticks(TickStep)

-----------------------------------------------------------------------------
(* Memory on its own: the constructor applied to arguments of every kind,   *)
(* then add_instruction called by the host, one call at a time or in the    *)
(* loop of tests/test_memory.py.  Before Construct the four address         *)
(* variables and memory_sizes hold the arguments; last.kind is "args",      *)
(* then "rejected" (the constructor raised last.err and there is no         *)
(* Memory) or "construct"; "add" and "fill" after calls of add_instruction. *)

\* add_instruction calls in one behaviour
MaxAdds == 3

SizeArgs == {-1024, 0, 1000, 1024, 65536, 66560}
KeyboardArgs == {-1, 5, 1023, 1024}
VideoArgs == {<<0, 10>>, <<-2, 10>>, <<10, 5>>, <<0, 1024>>, <<1024, 1030>>}
LabelArgs == {"", "a", "b"}
InstructionArgs == {NoneInstr, Instr("MOV", <<Reg(0), Imm(1)>>)}

MemoryExists == last.kind \in {"construct", "add", "fill"}

InitMem ==
    /\ memory_sizes \in [instruction_memory_size : SizeArgs, data_memory_size : SizeArgs]
    /\ keyboard_buffer_address \in KeyboardArgs
    /\ \E v \in VideoArgs : video_memory_start = v[1] /\ video_memory_end = v[2]
    /\ instruction_memory = <<>>
    /\ labels = <<>>
    /\ data_memory = <<>>
    /\ data_registers = [i \in 0..(NumRegisters - 1) |-> 0]
    /\ flags = [CF |-> FALSE, PF |-> FALSE, ZF |-> FALSE, SF |-> FALSE, OF |-> FALSE]
    /\ program_counter = None
    /\ stack_pointer = <<>>
    /\ is_file_parsed = FALSE
    /\ file_name = NoFile
    /\ is_reading_input = FALSE
    /\ input = <<>>
    /\ input_destination = NoOperand
    /\ key_queue = <<>>
    /\ drain_pc = "idle"
    /\ last = [kind |-> "args", op |-> "", pc |-> None, err |-> NoErr]
    /\ pushed = <<>>
    /\ consumed = <<>>
    /\ ticks = 0

\* Memory(instruction_memory_size, data_memory_size, keyboard_buffer_address,
\*        video_memory_start, video_memory_end)
Construct ==
    /\ last.kind = "args"
    /\ LET e == MemoryInitError(memory_sizes.instruction_memory_size,
                                memory_sizes.data_memory_size, keyboard_buffer_address,
                                video_memory_start, video_memory_end)
       IN  last' = [kind |-> IF e = NoErr THEN "construct" ELSE "rejected",
                    op |-> "", pc |-> None, err |-> e]
    /\ UNCHANGED <<memory_sizes, keyboard_buffer_address, video_memory_start,
                   video_memory_end, instruction_memory, data_memory, labels,
                   data_registers, flags, program_counter, stack_pointer,
                   is_file_parsed, file_name, is_reading_input, input,
                   input_destination, key_queue, drain_pc, pushed, consumed, ticks>>

\* memory.add_instruction(instruction, label); last.op is the label given and
\* last.pc the length of instruction_memory before the call
AddInstruction ==
    /\ MemoryExists
    /\ ticks < MaxAdds
    /\ ticks' = ticks + 1
    /\ \E instruction \in InstructionArgs, label \in LabelArgs :
          LET m == add_instruction([err |-> NoErr, im |-> instruction_memory, lb |-> labels],
                                   instruction, label)
          IN  /\ instruction_memory' = m.im
              /\ labels' = m.lb
              /\ last' = [kind |-> "add", op |-> label, pc |-> Len(instruction_memory),
                           err |-> m.err]
    /\ UNCHANGED <<memory_sizes, keyboard_buffer_address, video_memory_start,
                   video_memory_end, data_memory, data_registers, flags,
                   program_counter, stack_pointer, is_file_parsed, file_name,
                   is_reading_input, input, input_destination, key_queue, drain_pc,
                   pushed, consumed>>

\* n calls of add_instruction(instruction), up to the first that raises
RECURSIVE AddRepeated(_, _, _)
AddRepeated(m, instruction, n) ==
    IF n <= 0 \/ m.err # NoErr THEN m
    ELSE IF n = 1 THEN add_instruction(m, instruction, "")
    ELSE AddRepeated(AddRepeated(m, instruction, n \div 2), instruction, n - (n \div 2))

\* for _ in range(instruction_memory_size + 1): memory.add_instruction(...)
\* (test_instruction_memory_overflow: on the Memory of setUp), for the
\* smallest memory
Fill ==
    /\ last.kind = "construct"
    /\ memory_sizes.instruction_memory_size = MIN_MEMORY_SIZE
    /\ LET m == AddRepeated([err |-> NoErr, im |-> instruction_memory, lb |-> labels],
                            Instr("MOV", <<Reg(0), Imm(1)>>),
                            memory_sizes.instruction_memory_size + 1)
       IN  /\ instruction_memory' = m.im
           /\ labels' = m.lb
           /\ last' = [kind |-> "fill", op |-> "", pc |-> Len(instruction_memory),
                        err |-> m.err]
    /\ UNCHANGED <<memory_sizes, keyboard_buffer_address, video_memory_start,
                   video_memory_end, data_memory, data_registers, flags,
                   program_counter, stack_pointer, is_file_parsed, file_name,
                   is_reading_input, input, input_destination, key_queue, drain_pc,
                   pushed, consumed, ticks>>

NextMem == Construct \/ AddInstruction \/ Fill

SpecMem == InitMem /\ [][NextMem]_vars

-----------------------------------------------------------------------------
(* The machine with a host that supplies a second source: set_file_name     *)
(* between ticks.  The first source is one of ReloadFrom, the second one of *)
(* ReloadTo; the sets are disjoint, so a behaviour has at most one reload.  *)

ReloadFrom == { File("mov", "MOV", 5, 0), File("call", "CALL", 1, 0) }
ReloadTo == { File("push_pop", "PUSH", 5, 0), File("cmp", "JE", 5, 5) }

\* processor.set_file_name(new)
SetFileName ==
    /\ drain_pc = "idle"
    /\ file_name \in ReloadFrom
    /\ \E new \in ReloadTo : file_name' = new
    /\ is_file_parsed' = FALSE
    /\ last' = [kind |-> "set_file_name", op |-> "", pc |-> program_counter, err |-> NoErr]
    /\ UNCHANGED <<memory_sizes, keyboard_buffer_address, video_memory_start,
                   video_memory_end, instruction_memory, data_memory, labels,
                   data_registers, flags, program_counter, stack_pointer,
                   is_reading_input, input, input_destination, key_queue, drain_pc,
                   pushed, consumed, ticks>>

NextReload == Tick \/ Push \/ SetFileName

InitReload == Init /\ file_name \in ReloadFrom

SpecReload == InitReload /\ [][NextReload]_vars

-----------------------------------------------------------------------------
(* The Processor with a host that calls not_op directly, as test_not_op     *)
(* does: processor.data_registers[i] = x, then processor.not_op(['R<i>']).  *)
(* Here data_registers holds words (see Word), ticks counts the calls, and  *)
(* last is [kind |-> "not", operands, before, err] with before the          *)
(* registers as they were when the call began.                              *)

\* not_op calls in one behaviour
MaxNots == 3

NotValues == {-32768, -7, -1, 0, 5, 170, 32767}
NotOperands == {<<Reg(0)>>, <<Reg(1)>>, <<Reg(0), Reg(1)>>, <<Reg(8)>>}

InitNot ==
    /\ \E c \in Configs :
          /\ memory_sizes = [instruction_memory_size |-> c.isize, data_memory_size |-> c.dsize]
          /\ keyboard_buffer_address = c.kb
          /\ video_memory_start = c.vs
          /\ video_memory_end = c.ve
    /\ instruction_memory = <<>>
    /\ labels = <<>>
    /\ data_memory = <<>>
    /\ \E x \in NotValues, y \in NotValues :
          data_registers = [i \in 0..(NumRegisters - 1) |->
                              IF i = 0 THEN Word(x) ELSE IF i = 1 THEN Word(y) ELSE Word(0)]
    /\ flags = [CF |-> FALSE, PF |-> FALSE, ZF |-> FALSE, SF |-> FALSE, OF |-> FALSE]
    /\ program_counter = None
    /\ stack_pointer = <<>>
    /\ is_file_parsed = FALSE
    /\ file_name = NoFile
    /\ is_reading_input = FALSE
    /\ input = <<>>
    /\ input_destination = NoOperand
    /\ key_queue = <<>>
    /\ drain_pc = "idle"
    /\ last = [kind |-> "init", op |-> "", pc |-> None, err |-> NoErr]
    /\ pushed = <<>>
    /\ consumed = <<>>
    /\ ticks = 0

\* processor.not_op(operands)
NotOp ==
    /\ ticks < MaxNots
    /\ ticks' = ticks + 1
    /\ \E operands \in NotOperands :
          LET r == not_op_words(data_registers, operands)
          IN  /\ data_registers' = r.regs
              /\ last' = [kind |-> "not", operands |-> operands,
                           before |-> data_registers, err |-> r.err]
    /\ UNCHANGED <<memory_sizes, keyboard_buffer_address, video_memory_start,
                   video_memory_end, instruction_memory, data_memory, labels, flags,
                   program_counter, stack_pointer, is_file_parsed, file_name,
                   is_reading_input, input, input_destination, key_queue, drain_pc,
                   pushed, consumed>>

NextNot == NotOp

SpecNot == InitNot /\ [][NextNot]_vars

-----------------------------------------------------------------------------
(* The Processor in the middle of a blocking read into R0, when the bytes   *)
(* of a line have been drained into input and the Enter key is the next     *)
(* byte of the queue: one call of reading_input converts and stores the     *)
(* line.  consumed holds the bytes taken from the queue so far.             *)

\* the longest line
MaxLine == 2

LineBytes == {0, 48, 53, 57, 97, 178, 179, 185, 255}

RECURSIVE LinesUpTo(_)
LinesUpTo(n) ==
    IF n = 0 THEN {<<>>}
    ELSE LinesUpTo(n - 1)
         \cup {Append(l, c) : l \in {x \in LinesUpTo(n - 1) : Len(x) = n - 1}, c \in LineBytes}

InitConvert ==
    /\ \E c \in Configs :
          /\ c.kb >= 0
          /\ memory_sizes = [instruction_memory_size |-> c.isize, data_memory_size |-> c.dsize]
          /\ keyboard_buffer_address = c.kb
          /\ video_memory_start = c.vs
          /\ video_memory_end = c.ve
          /\ data_memory = set_keyboard_pointer(<<>>, c.kb)
    /\ instruction_memory = <<>>
    /\ labels = <<>>
    /\ data_registers = [i \in 0..(NumRegisters - 1) |-> 0]
    /\ flags = [CF |-> FALSE, PF |-> FALSE, ZF |-> FALSE, SF |-> FALSE, OF |-> FALSE]
    /\ program_counter = None
    /\ stack_pointer = <<>>
    /\ is_file_parsed = FALSE
    /\ file_name = NoFile
    /\ is_reading_input = TRUE
    /\ input \in LinesUpTo(MaxLine)
    /\ input_destination = Reg(0)
    /\ key_queue = <<13>>
    /\ drain_pc = "idle"
    /\ last = [kind |-> "init", op |-> "", pc |-> None, err |-> NoErr]
    /\ pushed = Append(input, 13)
    /\ consumed = input
    /\ ticks = 0

\* processor.reading_input()
ReadingInput ==
    /\ last.kind = "init"
    /\ ticks' = ticks + 1
    /\ Commit([reading_input(State) EXCEPT !.last = Last("drain", "", program_counter)])
    /\ UNCHANGED <<memory_sizes, keyboard_buffer_address, video_memory_start,
                   video_memory_end, file_name, drain_pc, pushed>>

NextConvert == ReadingInput

SpecConvert == InitConvert /\ [][NextConvert]_vars

-----------------------------------------------------------------------------
(* Properties *)

InInt16(v) == v >= -32768 /\ v <= 32767

IsPrefix(a, b) == Len(a) <= Len(b) /\ SubSeq(b, 1, Len(a)) = a

\* the last tick executed the instruction op without raising
Executed(op) == last.kind = "exec" /\ last.op = op /\ last.err = NoErr

\* C1: after every tick each of the 8 registers holds a value in
\* [-32768, 32767]; MOV R0, #40000 leaves R0 = 32767.
C1_RegistersIn16Bit ==
    /\ \A i \in DOMAIN data_registers : InInt16(data_registers[i])
    /\ (file_name = File("mov", "MOV", 40000, 0) /\ ticks >= 1 => data_registers[0] = 32767)

KbdMovIndex == IF file_name.name = "kbd_indirect" THEN 1 ELSE 0

\* C3: for MOV R0, M<K> with a keyboard installed, once '4', '2', 13 have been
\* pushed and drained (in any split across ticks) R0 = 42, Reading is cleared
\* and PC is the MOV's index + 1; the instruction after the MOV is not
\* executed before the read has completed.
C3_ReadOf42 ==
    file_name.name \in {"kbd_direct", "kbd_indirect"} =>
        /\ (IsPrefix(<<52, 50, 13>>, consumed) =>
                /\ data_registers[0] = 42
                /\ (Len(consumed) = 3 => ~ is_reading_input /\ input = <<>>))
        /\ (IsPrefix(<<52, 50, 13>>, pushed) /\ last.kind = "drain" /\ key_queue = <<>> =>
                IsPrefix(<<52, 50, 13>>, consumed))
        /\ (last.kind = "drain" /\ ~ is_reading_input => program_counter = KbdMovIndex + 1)
        /\ (is_reading_input => data_registers[1] = 0 /\ program_counter = KbdMovIndex + 1)
        /\ (data_registers[1] = 1 => ~ is_reading_input /\ 13 \in {consumed[i] : i \in DOMAIN consumed})

\* the read of "42" has just completed
C3_Witness ==
    /\ file_name.name = "kbd_direct"
    /\ last.kind = "drain" /\ ~ is_reading_input
    /\ consumed = <<52, 50, 13>> /\ data_registers[0] = 42 /\ program_counter = 1

\* C4 (SpecDrain): under every interleaving of key presses with the calls of
\* has_characters and get_next_character, the codes consumed are a prefix of
\* the codes pushed, in order, none lost, duplicated or merged, and
\* get_next_character is never called on an empty queue after has_characters
\* returned True.
C4_FifoOrder ==
    /\ pushed = consumed \o key_queue
    /\ IsPrefix(consumed, pushed)
    /\ (drain_pc = "get" => key_queue # <<>>)
    /\ last.err # "TypeError"

\* a key was pressed between has_characters() and get_next_character(), after
\* an earlier character had been consumed
C4_Witness ==
    /\ drain_pc = "get" /\ Len(consumed) >= 1 /\ Len(key_queue) >= 2
    /\ key_queue[1] # key_queue[2]

\* C5: for a CALL at index c (c = 0 included) followed by a RET with no
\* stack change in between, the RET tick leaves PC = c + 1.  In the files
\* "call" the CALL is at index file_name.a.
C5_RetReturnsAfterCall ==
    file_name.name = "call" /\ Executed("RET") => program_counter = file_name.a + 1

\* in the files "cmp": the jump at index 1 was taken
CmpTaken == program_counter = labels["target"] + 1
\* in the files "cmp": the tick of the conditional jump op has just ended
CmpJumped(op) == file_name.name = "cmp" /\ file_name.op = op /\ Executed(op)

\* C6: for all a, b in [-32768, 32767], after CMP a,b JE takes the branch iff
\* a = b and JNE takes the branch iff a # b; a jump not taken goes on at the
\* next index.
C6_JeJne ==
    /\ (CmpJumped("JE") => (CmpTaken <=> file_name.a = file_name.b))
    /\ (CmpJumped("JNE") => (CmpTaken <=> file_name.a # file_name.b))
    /\ (\E op \in {"JE", "JNE"} : CmpJumped(op)) /\ ~ CmpTaken =>
            program_counter = last.pc + 1

\* JE has branched on two equal operands at the upper bound
C6_Witness ==
    /\ CmpJumped("JE") /\ CmpTaken
    /\ file_name.a = 32767 /\ file_name.b = 32767

\* C7: for all a, b in [-32768, 32767], also when a - b leaves the 16-bit
\* range, after CMP a,b JL takes the branch iff a < b and JG iff a > b.
C7_JlJg ==
    /\ (CmpJumped("JL") => (CmpTaken <=> file_name.a < file_name.b))
    /\ (CmpJumped("JG") => (CmpTaken <=> file_name.a > file_name.b))

\* C8: for all a, b in [-32768, 32767], after CMP a,b JGE takes the branch iff
\* a >= b and JLE takes the branch iff a <= b.
C8_JgeJle ==
    /\ (CmpJumped("JGE") => (CmpTaken <=> file_name.a >= file_name.b))
    /\ (CmpJumped("JLE") => (CmpTaken <=> file_name.a <= file_name.b))

\* the exception classes of C9: DivisionByZero, InvalidDataAddress, UnknownLabel
FaultErrors == {"DivisionByZeroException", "InvalidMemoryAddrError", "ValueError"}

\* C9 as stated: a tick that faults with one of these leaves PC, the registers
\* and the flags exactly as they were before the tick.
C9_FaultLeavesAllAsBefore ==
    [][(ticks' = ticks + 1 /\ last'.err \in FaultErrors) =>
            /\ program_counter' = program_counter
            /\ data_registers' = data_registers
            /\ flags' = flags]_vars

\* C9 amended: a tick that faults with one of these leaves the registers and
\* the flags exactly as before the tick and PC at the faulting instruction:
\* at its value before the tick, or at 0 when it was still unset (the first
\* tick sets it before the fetch).
C9_FaultLeavesPcAtInstruction ==
    [][(ticks' = ticks + 1 /\ last'.err \in FaultErrors) =>
            /\ program_counter' = (IF program_counter = None THEN 0 ELSE program_counter)
            /\ program_counter' = last'.pc
            /\ data_registers' = data_registers
            /\ flags' = flags]_vars

\* a DIV by zero has faulted with a non-zero dividend still in R0
C9_Witness ==
    /\ last.err = "DivisionByZeroException" /\ last.kind = "exec" /\ last.op = "DIV"
    /\ data_registers[0] = -7 /\ program_counter = 2

\* C10: every data cell with an address in [vs..ve] is uninitialised or holds
\* a value in 0..255, and read_video_memory() returns the ve - vs + 1 cells
\* in address order.
C10_VideoCellsAreBytes ==
    /\ \A a \in DOMAIN data_memory :
          InVideo(a) => data_memory[a].t = "int" /\ data_memory[a].v \in 0..255
    /\ LET vm == read_video_memory(data_memory, video_memory_start, video_memory_end)
       IN  /\ Len(vm) = video_memory_end - video_memory_start + 1
           /\ \A i \in DOMAIN vm :
                 \/ vm[i].t = "none" /\ (video_memory_start + i - 1) \notin DOMAIN data_memory
                 \/ vm[i].t = "int" /\ vm[i].v \in 0..255
                    /\ vm[i] = data_memory[video_memory_start + i - 1]

\* Data[kb_addr]: the cell Python's data_memory[keyboard_buffer_address] names
KbCell ==
    IF get_keyboard_pointer(data_memory, keyboard_buffer_address)
    THEN data_memory[ListIndex(keyboard_buffer_address)] ELSE NoneCell

\* the last tick performed a program write aimed at kb_addr: a destination
\* M<kb_addr>, MR<i> with R<i> = kb_addr, or a completed keyboard read whose
\* recorded destination is kb_addr
AimedAtKb ==
    \/ file_name.name \in {"write_kbd", "write_kbd_reg", "xor_kbd"}
          /\ last.kind = "exec" /\ last.pc = 1
    \/ file_name.name = "write_last" /\ last.kind = "exec" /\ last.pc = 0
          /\ memory_sizes.data_memory_size - 1 = keyboard_buffer_address
    \/ file_name.name = "kbd_to_kbd" /\ last.kind = "drain" /\ ~ is_reading_input

\* C11: no tick changes Data[kb_addr], and every program write aimed at
\* kb_addr fails with InvalidDataAddress (InvalidMemoryAddrError), so the cell
\* only ever holds what set_keyboard_pointer put there.
C11_KeyboardCellNeverWritten ==
    [][ticks' = ticks + 1 =>
            /\ KbCell' = KbCell
            /\ (AimedAtKb' => last'.err = "InvalidMemoryAddrError")]_vars

\* C12: every initialised data cell outside [vs..ve] other than the keyboard
\* cell holds a value in [-32768, 32767]; MOV M<a>, #40000 with a outside the
\* video range leaves Data[a] = 32767.
C12_DataCellsIn16Bit ==
    /\ \A a \in DOMAIN data_memory :
          ~ InVideo(a) /\ data_memory[a].t = "int" => InInt16(data_memory[a].v)
    /\ (file_name = File("store", "MOV", 40000, 0) /\ Executed("MOV") =>
            /\ PlainAddress \in DOMAIN data_memory
            /\ data_memory[PlainAddress] = IntCell(32767))

\* a size the claim lets a memory have
ValidSize(size) == size > 0 /\ size % 1024 = 0 /\ size <= 65536

\* C13 (SpecMem): a Memory is constructed only if both the instruction-memory
\* size and the data-memory size are positive multiples of 1024 not exceeding
\* 65536; with any other size the constructor raises and there is no Memory.
C13_SizesValidated ==
    MemoryExists => /\ ValidSize(memory_sizes.instruction_memory_size)
                    /\ ValidSize(memory_sizes.data_memory_size)

\* the address constraints of a Memory
ValidAddresses ==
    /\ 0 <= video_memory_start /\ video_memory_start <= video_memory_end
    /\ video_memory_end < memory_sizes.data_memory_size
    /\ 0 <= keyboard_buffer_address
    /\ keyboard_buffer_address < memory_sizes.data_memory_size
    /\ ~ InVideo(keyboard_buffer_address)

\* C14 (SpecMem): every constructed Memory has 0 <= vs <= ve < DS,
\* 0 <= kb_addr < DS and kb_addr outside [vs..ve]; a constructor call with
\* valid sizes that violates one of these fails with InvalidDataAddress
\* (InvalidMemoryAddrError).
C14_AddressesValidated ==
    /\ (MemoryExists => ValidAddresses)
    /\ (last.kind # "args" /\ ~ ValidAddresses
          /\ ValidSize(memory_sizes.instruction_memory_size)
          /\ ValidSize(memory_sizes.data_memory_size) =>
            last.kind = "rejected" /\ last.err = "InvalidMemoryAddrError")

\* C15 (SpecMem): a call of add_instruction appends exactly one entry and
\* binds the label given, if any, to the index just appended; when
\* |Instr| = IS it fails with InstructionOverflow (MemoryOverflowError) and
\* leaves Instr and the labels unchanged; |Instr| <= IS in every state of a
\* Memory.
C15_AddInstruction ==
    [][/\ (last'.kind = "add" =>
              IF Len(instruction_memory) = memory_sizes.instruction_memory_size
              THEN /\ last'.err = "MemoryOverflowError"
                   /\ instruction_memory' = instruction_memory
                   /\ labels' = labels
              ELSE /\ last'.err = NoErr
                   /\ Len(instruction_memory') = Len(instruction_memory) + 1
                   /\ SubSeq(instruction_memory', 1, Len(instruction_memory)) = instruction_memory
                   /\ IF last'.op = "" THEN labels' = labels
                      ELSE /\ DOMAIN labels' = DOMAIN labels \cup {last'.op}
                           /\ labels'[last'.op] = Len(instruction_memory)
                           /\ \A l \in DOMAIN labels \ {last'.op} : labels'[l] = labels[l])
       /\ (MemoryExists' =>
              Len(instruction_memory') <= memory_sizes.instruction_memory_size)]_vars

\* C16: loading a source with a non-blank, non-comment, non-label line whose
\* first token is not an opcode fails at load time: every tick on the file
\* "unknown_opcode" (MOV R0, #1 / FOO R1, #2 / MOV R2, #3) ends in the
\* loader's error, the file is never marked parsed and none of its
\* instructions is run.
C16_UnknownOpcodeRejected ==
    file_name.name = "unknown_opcode" /\ ticks >= 1 =>
        /\ last.kind = "parse" /\ last.err # NoErr
        /\ ~ is_file_parsed
        /\ \A i \in DOMAIN data_registers : data_registers[i] = 0

\* C17: executing an instruction with the wrong number of operands is a fatal
\* fault.  In the files "arity" (MOV R0, #3, then at index 1 the instruction
\* with one operand too many or too few, then MOV R1, #1) the tick at index 1
\* surfaces an error and leaves PC at 1 and the registers, flags and stack
\* unchanged, and the instruction after it is never executed.
C17_BadArityIsFatal ==
    file_name.name = "arity" =>
        /\ (last.kind = "exec" /\ last.pc = 1 =>
                /\ last.err # NoErr
                /\ program_counter = 1
                /\ data_registers = [i \in 0..(NumRegisters - 1) |-> IF i = 0 THEN 3 ELSE 0]
                /\ \A f \in DOMAIN flags : ~ flags[f]
                /\ stack_pointer = <<>>)
        /\ data_registers[1] = 0

\* the tick at index 1 of the files "pop_empty" and "ret_empty" (MOV R0, #3,
\* then POP R0 or RET on the empty stack, then MOV R1, #1) has just ended
EmptyStackTick(name) ==
    file_name.name = name /\ last.kind = "exec" /\ last.pc = 1

\* C18: a POP or RET executed while the stack is empty is a fatal fault: the
\* tick surfaces an error, the stack stays empty and PC stays at the POP or
\* RET; the instruction after it is not executed.
C18_StackUnderflowIsFatal ==
    /\ (EmptyStackTick("pop_empty") \/ EmptyStackTick("ret_empty") =>
            last.err # NoErr /\ stack_pointer = <<>> /\ program_counter = 1)
    /\ (file_name.name \in StackFiles => data_registers[1] = 0)

\* the instruction memory and the labels that parsing the source file_name
\* into an empty memory gives
FreshParse ==
    ParseLines([err |-> NoErr, im |-> <<>>, lb |-> <<>>],
               FileContents(file_name, keyboard_buffer_address, video_memory_start,
                            video_memory_end, memory_sizes.data_memory_size), 1)

\* C19 (SpecReload): when a new source has been supplied to an interpreter
\* that had loaded and executed a program, the next tick re-parses, resets PC
\* to 0 and fetches the first instruction of the new source: the instruction
\* memory and the labels are those of the new source alone.
C19_ReloadReplacesProgram ==
    [][ticks' = ticks + 1 /\ last.kind = "set_file_name" /\ program_counter # None =>
            /\ is_file_parsed'
            /\ instruction_memory' = FreshParse.im
            /\ labels' = FreshParse.lb
            /\ last'.kind = "exec" /\ last'.pc = 0
            /\ last'.op = FreshParse.im[1].op]_vars

\* C20: PUSH src followed by POP dst with no stack change in between leaves
\* dst equal to the value src had at the PUSH.  In the files "push_pop"
\* (MOV R0, #a / PUSH R0 / POP R1) the PUSH leaves the value a on the stack,
\* not the operand text, and the POP leaves R1 = a and the stack empty.
C20_PushPopRoundTrip ==
    file_name.name = "push_pop" =>
        /\ (Executed("PUSH") => stack_pointer = <<StackInt(file_name.a)>>)
        /\ (Executed("POP") => data_registers[1] = file_name.a /\ stack_pointer = <<>>)

\* the instruction record the last tick fetched (for last.kind = "exec")
LastInstruction == instruction_memory[last.pc + 1]

C22_PcInRange ==
    \/ program_counter = None
    \/ 0 <= program_counter /\ program_counter <= Len(instruction_memory)

\* a jump to the label on the last line has left PC at |Instr|
C22_Witness ==
    /\ file_name.name = "labels" /\ Executed("JMP") /\ last.pc = 6
    /\ program_counter = Len(instruction_memory) /\ program_counter = 10

\* C23: for the source MOV R0, #2 / MOV R1, #3 / ADD R0, R1 the state after
\* exactly three ticks has R0 = 5, R1 = 3, R2..R7 = 0, ZF = false, an empty
\* stack and PC = 3; and a tick that executes MOV or ADD with a register
\* destination R<i> leaves every register other than R<i> unchanged.
C23_AddIntoRegister ==
    [][ticks' = ticks + 1 =>
         /\ (file_name.name = "add_regs" /\ ticks' = 3 =>
                /\ data_registers' = [i \in 0 .. NumRegisters - 1 |->
                                         IF i = 0 THEN 5 ELSE IF i = 1 THEN 3 ELSE 0]
                /\ ~ flags'.ZF
                /\ stack_pointer' = <<>>
                /\ program_counter' = 3)
         /\ (/\ last'.kind = "exec" /\ LastInstruction'.op \in {"MOV", "ADD"}
             /\ Len(LastInstruction'.operands) = 2
             /\ LastInstruction'.operands[1].k = "R"
             => \A j \in 0 .. NumRegisters - 1 :
                   j # LastInstruction'.operands[1].n
                      => data_registers'[j] = data_registers[j])]_vars

\* the third tick of the source has executed the ADD and R0 holds the sum
C23_Witness ==
    /\ file_name.name = "add_regs" /\ ticks = 3 /\ Executed("ADD")
    /\ data_registers[0] = 5 /\ data_registers[1] = 3 /\ program_counter = 3

\* the program is loaded and no instruction is left at program_counter
Halted == is_file_parsed /\ program_counter = Len(instruction_memory)

\* C24: for the source MOV R0,#0 / loop: ADD R0,#1 / CMP R0,#3 / JL loop
\* the halted state PC = |Instr| has R0 = 3 (the halted state is reached by
\* the fourth tick, with R0 = 0).
C24_LoopHaltsWithThree ==
    file_name.name = "loop" /\ Halted => data_registers[0] = 3

\* C25: for the source CALL f / MOV R0,#7 / halt: / f: MOV R1,#9 / RET the
\* halted state has R1 = 9, R0 = 7 and an empty stack.
C25_CallScenarioResult ==
    file_name.name = "call_scenario" /\ Halted
       => /\ data_registers[1] = 9
          /\ data_registers[0] = 7
          /\ stack_pointer = <<>>

\* the quotient of a by b truncated toward zero, b # 0
TruncDiv(a, b) ==
    LET Abs(x) == IF x < 0 THEN - x ELSE x
        q == Abs(a) \div Abs(b)
    IN  IF (a < 0) = (b < 0) THEN q ELSE - q

\* C26: DIV dst,src with eval(dst) = a and eval(src) = b # 0 stores the
\* quotient of a by b truncated toward zero (-7 / 2 gives -3 and 7 / -2
\* gives -3), not the floor.
C26_DivTruncatesTowardZero ==
    file_name.name = "div" /\ Executed("DIV") /\ file_name.b # 0
       => data_registers[0] = TruncDiv(file_name.a, file_name.b)

\* a word that stands for a 16-bit signed value
IsInt16Word(w) == (w.hi = 0 /\ w.lo <= 32767) \/ (w.hi = -1 /\ w.lo >= 32768)

\* C27: for every 16-bit value x held in a register (negative x included),
\* NOT executed on that register twice leaves a value congruent to x
\* modulo 2^16.
C27_NotTwice ==
    [][(/\ last.kind = "not" /\ last.err = NoErr
        /\ last'.kind = "not" /\ last'.err = NoErr
        /\ last'.operands = last.operands
        /\ IsInt16Word(last.before[last.operands[1].n]))
       => data_registers'[last.operands[1].n].lo
             = last.before[last.operands[1].n].lo]_vars

\* x = -7 in R0: the first NOT leaves 6, the second 2^32 - 7
C27_Witness ==
    /\ last.kind = "not" /\ last.err = NoErr /\ ticks = 2
    /\ last.operands = <<Reg(0)>>
    /\ last.before[0] = Word(6)
    /\ data_registers[0] = [hi |-> 65535, lo |-> 65529]

\* C28: a data cell that was never written reads as 0: MOV R0, M<a> leaves
\* R0 = 0, not its previous value, and ADD/SUB/CMP R1, M<a> compute with 0
\* without faulting (R1 was 0 and stays 0).
C28_UninitialisedReadsAsZero ==
    file_name.name = "uninit" /\ last.kind = "exec" =>
       /\ (last.pc = 1 => last.err = NoErr /\ data_registers[0] = 0)
       /\ (last.pc = 2 => last.err = NoErr /\ data_registers[1] = 0)

\* the lines of the loaded source
Source ==
    FileContents(file_name, keyboard_buffer_address, video_memory_start,
                 video_memory_end, memory_sizes.data_memory_size)

\* the lines that the loader turns into a record of the instruction memory
IsInstructionLine(line) == ~ line.colon /\ line.head \in InstructionTypes
IsLabelLine(line) == line.colon
\* the index of the record of line k: the records loaded before it
RecordIndex(lines, k) ==
    Cardinality({j \in 1 .. (k - 1) : IsInstructionLine(lines[j]) \/ IsLabelLine(lines[j])})
\* line k is the last definition of its label
LastDefinition(lines, k) ==
    /\ IsLabelLine(lines[k])
    /\ \A j \in (k + 1) .. Len(lines) : ~ (IsLabelLine(lines[j]) /\ lines[j].head = lines[k].head)
\* the index of the first instruction after line k, |Instr| if there is none
FollowingInstruction(lines, k) ==
    LET later == {j \in (k + 1) .. Len(lines) : IsInstructionLine(lines[j])}
    IN  IF later = {} THEN RecordIndex(lines, Len(lines) + 1)
        ELSE RecordIndex(lines, CHOOSE j \in later : \A i \in later : j <= i)

\* C29 as stated: after loading, every label resolves to the index of the
\* first instruction that follows it in the source (so the labels of a run
\* of consecutive label lines resolve to the same index), the later
\* definition of a name being the one in force.
C29_LabelIsFollowingInstruction ==
    is_file_parsed =>
       \A k \in 1 .. Len(Source) :
          LastDefinition(Source, k) =>
             goto_label(labels, Source[k].head)
                = [err |-> NoErr, v |-> FollowingInstruction(Source, k)]

\* C29, amended: after loading, every label resolves to the index of its own
\* label record in the instruction memory, the record before the first
\* instruction or label that follows it in the source (so the labels of a
\* run of consecutive label lines resolve to consecutive indices), the
\* later definition of a name being the one in force.
C29_LabelIsOwnRecord ==
    is_file_parsed =>
       \A k \in 1 .. Len(Source) :
          LastDefinition(Source, k) =>
             /\ goto_label(labels, Source[k].head)
                   = [err |-> NoErr, v |-> RecordIndex(Source, k)]
             /\ instruction_memory[RecordIndex(Source, k) + 1] = NoneInstr

\* consecutive labels c, b and the redefined label a of the source labels
C29_Witness ==
    /\ file_name.name = "labels" /\ is_file_parsed
    /\ goto_label(labels, "c").v = 1 /\ goto_label(labels, "b").v = 2
    /\ goto_label(labels, "a").v = 7 /\ goto_label(labels, "end").v = 9

\* the test that the jump op makes on the flags
JumpCondition(op, fl) ==
    CASE op \in {"JMP", "CALL"} -> TRUE
      [] op = "JE"  -> fl.ZF
      [] op = "JNE" -> ~ fl.ZF
      [] op = "JG"  -> ~ fl.ZF /\ fl.SF = fl.OF
      [] op = "JL"  -> fl.SF /\ ~ fl.ZF
      [] op = "JGE" -> fl.SF = fl.ZF
      [] op = "JLE" -> fl.ZF \/ fl.SF # fl.OF

\* the line of the source that defines the label name
TargetLine(name) ==
    CHOOSE k \in 1 .. Len(Source) : LastDefinition(Source, k) /\ Source[k].head = name

\* from pc on, only label records come before the first instruction that
\* follows the label of line k in the source (the end of the program if none
\* follows); an instruction on the label's own line is the one that follows it
LandsAtLabel(im, pc, k) ==
    LET target == FollowingInstruction(Source, k)
    IN  /\ Source[k].operands = <<>>
        /\ pc <= target
        /\ \A i \in pc .. (target - 1) : im[i + 1] = NoneInstr

\* C30: after a tick that executes JMP L, a taken conditional jump to L or
\* CALL L, the next non-label instruction executed is the first instruction
\* that follows L in the source, or the program is halted if none does; after
\* a conditional jump that is not taken it is the one at the jump's index + 1.
\* Every tick executes the record at the program counter, and a label record
\* only moves the program counter to the next index.
C30_JumpTarget ==
    [][ticks' = ticks + 1 /\ last'.kind = "exec" /\ last'.err = NoErr =>
         /\ last'.pc = (IF is_file_parsed THEN program_counter ELSE 0)
         /\ (LastInstruction' = NoneInstr =>
                /\ program_counter' = last'.pc + 1
                /\ data_registers' = data_registers /\ flags' = flags
                /\ stack_pointer' = stack_pointer /\ data_memory' = data_memory)
         /\ (LastInstruction'.op \in JumpOps \cup {"JMP", "CALL"}
                /\ Len(LastInstruction'.operands) = 1 =>
                IF JumpCondition(LastInstruction'.op, flags)
                THEN LandsAtLabel(instruction_memory', program_counter',
                                  TargetLine(LastInstruction'.operands[1].text))
                ELSE program_counter' = last'.pc + 1)]_vars

\* the value the claim gives to a line
LineValue(line) ==
    IF line # <<>> /\ \A i \in 1 .. Len(line) : line[i] \in 48 .. 57
    THEN DecimalValue(line)
    ELSE IF Len(line) = 1 THEN line[1]
    ELSE -1

\* C31: the line drained before the byte 13 is converted without a fault:
\* a non-empty line of decimal digits '0'..'9' to its integer value, a line
\* of exactly one other byte (178, 179 and 185 included) to that byte's
\* code, every other line to -1.
C31_LineConversion ==
    last.kind = "drain" =>
       /\ last.err = NoErr
       /\ data_registers[0] = LineValue(SubSeq(consumed, 1, Len(consumed) - 1))

\* C32: after ADD, SUB or MUL has stored its result r, ZF = (r = 0) and
\* SF = (r < 0).
C32_ArithmeticSetsFlags ==
    /\ last.kind = "exec" /\ last.err = NoErr
    /\ LastInstruction.op \in {"ADD", "SUB", "MUL"}
    /\ Len(LastInstruction.operands) = 2
    /\ LastInstruction.operands[1].k = "R"
    => LET r == data_registers[LastInstruction.operands[1].n]
       IN  flags.ZF = (r = 0) /\ flags.SF = (r < 0)

FlagsKept ==
    /\ flags'.ZF = flags.ZF /\ flags'.SF = flags.SF
    /\ flags'.CF = flags.CF /\ flags'.OF = flags.OF

C34_ShrIsLogical ==
    file_name.name = "bits" /\ Executed("SHR") /\ file_name.b \in 0 .. 15
       => data_registers[0] = (file_name.a % 65536) \div Pow2(file_name.b)

\* C35: once PC = |Instr| with no keyboard read in progress (and no new
\* source), every further tick leaves registers, flags, stack, PC, data
\* memory, instruction memory and the label table unchanged, and the program
\* stays in that state.
C35_HaltedForGood ==
    [][ticks' = ticks + 1 /\ program_counter = Len(instruction_memory)
          /\ ~ is_reading_input =>
         /\ last'.kind = "halted"
         /\ UNCHANGED <<data_registers, flags, stack_pointer, program_counter,
                        data_memory, instruction_memory, labels>>
         /\ ~ is_reading_input']_vars

\* a tick of the halted program MOV R0, #2 / MOV R1, #3 / ADD R0, R1
C35_Witness ==
    /\ file_name.name = "add_regs" /\ last.kind = "halted" /\ ticks >= 5
    /\ program_counter = 3 /\ data_registers[0] = 5

EnterQueued == \E i \in 1 .. Len(key_queue) : key_queue[i] = 13

\* C36: with a keyboard installed and a read in progress, under weak
\* fairness of ticks a byte 13 in the queue leads to the end of the read;
\* while no 13 is in the queue a tick keeps the read in progress and appends
\* the bytes it drains to the line, and a key press leaves the line as it is.
C36_ReadingEnds ==
    /\ [][ticks' = ticks + 1 /\ is_reading_input /\ ~ EnterQueued
            /\ KeyboardInstalled(data_memory, keyboard_buffer_address) =>
              /\ is_reading_input'
              /\ input' = input \o key_queue
              /\ key_queue' = <<>>]_vars
    /\ [][pushed' # pushed => input' = input /\ is_reading_input' = is_reading_input]_vars
    /\ ((/\ is_reading_input /\ EnterQueued /\ ticks < MaxTicks
          /\ KeyboardInstalled(data_memory, keyboard_buffer_address))
           ~> ~ is_reading_input)

\* a read that kept the byte '2' over a tick and ended at the byte 13
C36_Witness ==
    /\ last.kind = "drain" /\ ~ is_reading_input
    /\ consumed = <<50, 13>> /\ ticks >= 3
    /\ file_name.name = "kbd_direct" /\ data_registers[0] = 2

\* the position of the first byte 13 in the queue
FirstEnter == CHOOSE i \in 1 .. Len(key_queue) :
                  key_queue[i] = 13 /\ \A j \in 1 .. (i - 1) : key_queue[j] # 13

\* C37: a drain stops at the first byte 13 it consumes: the bytes pushed
\* after that 13 stay in the queue in their order and are not part of the
\* completed line, so they are the first bytes the next read consumes; a
\* tick with no read in progress consumes nothing, and a key press appends
\* to the queue.
C37_DrainStopsAtEnter ==
    [][/\ (ticks' = ticks + 1 /\ is_reading_input /\ EnterQueued
             /\ KeyboardInstalled(data_memory, keyboard_buffer_address) =>
               /\ key_queue' = SubSeq(key_queue, FirstEnter + 1, Len(key_queue))
               /\ consumed' = consumed \o SubSeq(key_queue, 1, FirstEnter)
               /\ (last'.err = NoErr /\ input_destination.k = "R" =>
                      /\ data_registers'[input_destination.n] =
                            convert_keyboard_input(
                               input \o SubSeq(key_queue, 1, FirstEnter - 1)).v
                      /\ input' = <<>>))
       /\ (ticks' = ticks + 1 /\ ~ is_reading_input =>
               key_queue' = key_queue /\ consumed' = consumed)
       /\ (pushed' # pushed =>
               /\ key_queue' = Append(key_queue, pushed'[Len(pushed')])
               /\ consumed' = consumed)
       /\ pushed' = consumed' \o key_queue']_vars

\* the first read has ended at the 13 and left the bytes '2', 13 that were
\* pushed after it in the queue
C37_Witness ==
    /\ file_name.name = "kbd_twice" /\ last.kind = "drain" /\ ~ is_reading_input
    /\ consumed = <<13>> /\ key_queue = <<50, 13>> /\ data_registers[0] = -1

\* C38: in every state in which no read is in progress the line buffer is
\* empty, also after a read whose store into the recorded destination
\* faulted.
C38_LineBufferEmpty ==
    ~ is_reading_input => input = <<>>

\* C39: an instruction that faults leaves the stack as it was before the
\* tick: a CALL to an undefined label leaves no return address pushed, a
\* RET whose popped entry cannot be resolved leaves the entry on the stack.
C39_FaultKeepsStack ==
    [][ticks' = ticks + 1 /\ last'.kind = "exec" /\ last'.err # NoErr =>
          stack_pointer' = stack_pointer]_vars

====
